---- MODULE Spec2Model ----
(***************************************************************************)
(* Verification model of fMRIPrep's fit-stage graph assembly               *)
(*   fmriprep/workflows/bold/fit.py : init_bold_fit_wf,                    *)
(*                                    init_bold_native_wf                  *)
(*   fmriprep/workflows/base.py     : map_fieldmap_estimation,             *)
(*                                    init_single_subject_fit_wf,          *)
(*                                    init_single_subject_wf               *)
(*                                                                         *)
(* A nipype workflow is modelled as a record                               *)
(*   [nodes, edges, inputs]                                                *)
(* nodes  : the node names added to the graph,                             *)
(* edges  : <<source node, source port, destination node, dest. port>>,    *)
(* inputs : <<node, port, value>> for ports set statically on a node.      *)
(* Cached artifacts are file handles 1..NumArtifacts, estimator ids are    *)
(* 1..MaxEstimators, and Python's None is 0.                               *)
(***************************************************************************)
EXTENDS Integers, Sequences, FiniteSets, TLC

VARIABLES
    precomputed,      \* init_bold_fit_wf argument: the derivatives cache
    fieldmap_id,      \* init_bold_fit_wf argument: estimator id or None
    workflow,         \* the workflow returned by init_bold_fit_wf, or NoWorkflow
    config_workflow,  \* config.workflow flags read by map_fieldmap_estimation
    layout,           \* what the BIDS layout holds: estimators and IntendedFor
    bold_data,        \* subject_data['bold']: the subject's series
    pc,               \* init_single_subject_fit_wf: "start", "done" or "raised"
    fmap_estimators,  \* pruned estimator list returned by map_fieldmap_estimation
    estimator_map,    \* series -> estimator id returned by map_fieldmap_estimation
    log,              \* warning and error records logged by map_fieldmap_estimation
    raised,           \* the exception that ended the assembly, or "none"
    fmap_wf,          \* the estimator workflow set up by init_single_subject_fit_wf
    func_fit_wfs,     \* per series, the fit workflow built by the loop of base.py:353
    registry,         \* the ids held by sdcflows' shared registry fm._estimators
    bold_series,      \* init_bold_native_wf argument: the echo files as supplied
    run_stc,          \* whether slice-timing correction applies (fit.py:712)
    native,           \* what init_bold_native_wf returned or raised, or NoNative
    run_graph,        \* per node of the executed native graph, the nodes it waits for
    status            \* per node of the expanded native graph, how far its run got

vars == <<precomputed, fieldmap_id, workflow, config_workflow, layout, bold_data,
          pc, fmap_estimators, estimator_map, log, raised, fmap_wf, func_fit_wfs,
          registry, bold_series, run_stc, native, run_graph, status>>

fit_vars == <<precomputed, fieldmap_id, workflow>>

subject_vars == <<config_workflow, layout, bold_data, pc, fmap_estimators,
                  estimator_map, log, raised, fmap_wf, func_fit_wfs>>

native_vars == <<bold_series, run_stc, native, run_graph, status>>

(***************************************************************************)
(* Bounds                                                                  *)
(***************************************************************************)
NumArtifacts == 2
MaxEstimators == 2
MaxSeries == 2
MaxIntended == 2
MaxSources == 3
MaxEchoes == 3
NumShapes == 2

None == 0

Artifacts == 1..NumArtifacts

(***************************************************************************)
(* The derivatives cache (a Python dict) is a function on the keys it      *)
(* holds.  "transforms" is itself a dict.                                  *)
(***************************************************************************)
EmptyDict == [k \in {} |-> None]

\* dict.get(key, default)
DictGet(d, k, default) == IF k \in DOMAIN d THEN d[k] ELSE default

\* what stands for the value of a subscript that raised KeyError
KeyError == -1

\* d[key], which raises KeyError when the dict has no such key
Subscript(d, k) == IF k \in DOMAIN d THEN d[k] ELSE KeyError

TransformSlots == {"hmc", "boldref2fmap", "boldref2anat"}

TransformDicts == UNION {[S -> Artifacts] : S \in SUBSET TransformSlots}

BaselineDicts == UNION {[S -> Artifacts] : S \in SUBSET {"hmc_boldref", "coreg_boldref"}}

\* precomputed: baseline slots, with or without a "transforms" entry
WithTransforms(b, t) ==
    [k \in DOMAIN b \cup {"transforms"} |-> IF k = "transforms" THEN t ELSE b[k]]

Caches == BaselineDicts \cup {WithTransforms(b, t) : b \in BaselineDicts, t \in TransformDicts}

have_hmcref(pre) == "hmc_boldref" \in DOMAIN pre

have_coregref(pre) == "coreg_boldref" \in DOMAIN pre

transforms(pre) == DictGet(pre, "transforms", EmptyDict)

hmc_xforms(pre) == DictGet(transforms(pre), "hmc", None)

boldref2fmap_xform(pre) == DictGet(transforms(pre), "boldref2fmap", None)

boldref2anat_xform(pre) == DictGet(transforms(pre), "boldref2anat", None)

\* Python truthiness of an artifact handle or id
Truthy(v) == v # None

(***************************************************************************)
(* nipype workflow operations                                              *)
(***************************************************************************)
NoWorkflow == [nodes |-> {}, edges |-> {}, inputs |-> {}, built |-> FALSE]

\* Workflow(name=name); workflow.add_nodes([inputnode])
NewWorkflow == [nodes |-> {"inputnode"}, edges |-> {}, inputs |-> {}, built |-> TRUE]

\* workflow.connect([...]): adds the edges and both end nodes of each
connect(wf, E) ==
    [wf EXCEPT !.nodes = @ \cup {e[1] : e \in E} \cup {e[3] : e \in E},
               !.edges = @ \cup E]

\* node.inputs.port = value
set_input(wf, n, p, v) == [wf EXCEPT !.inputs = @ \cup {<<n, p, v>>}]

Cached(a) == <<"cached", a>>

Arg(name) == <<"arg", name>>

(***************************************************************************)
(* init_bold_fit_wf (fit.py:94-589)                                        *)
(***************************************************************************)

\* the unconditional connections without the one of the summary to the
\* reports
BaseConnections_NoSummaryReport(wf) ==
    connect(wf, {
        <<"hmcref_buffer", "boldref", "outputnode", "hmc_boldref">>,
        <<"regref_buffer", "boldref", "outputnode", "coreg_boldref">>,
        <<"regref_buffer", "boldmask", "outputnode", "bold_mask">>,
        <<"fmapreg_buffer", "boldref2fmap_xfm", "outputnode", "boldref2fmap_xfm">>,
        <<"hmc_buffer", "hmc_xforms", "outputnode", "motion_xfm">>,
        <<"inputnode", "bold_file", "func_fit_reports_wf", "inputnode.source_file">>,
        <<"inputnode", "t1w_preproc", "func_fit_reports_wf", "inputnode.t1w_preproc">>,
        <<"inputnode", "t1w_mask", "func_fit_reports_wf", "inputnode.t1w_mask">>,
        <<"inputnode", "t1w_dseg", "func_fit_reports_wf", "inputnode.t1w_dseg">>,
        <<"inputnode", "subjects_dir", "func_fit_reports_wf", "inputnode.subjects_dir">>,
        <<"inputnode", "subject_id", "func_fit_reports_wf", "inputnode.subject_id">>,
        <<"outputnode", "coreg_boldref", "func_fit_reports_wf", "inputnode.coreg_boldref">>,
        <<"outputnode", "boldref2anat_xfm", "func_fit_reports_wf", "inputnode.boldref2anat_xfm">>
    })

\* fit.py:314-338: the connections made whatever the cache holds
BaseConnections(wf) ==
    connect(wf, {
        <<"hmcref_buffer", "boldref", "outputnode", "hmc_boldref">>,
        <<"regref_buffer", "boldref", "outputnode", "coreg_boldref">>,
        <<"regref_buffer", "boldmask", "outputnode", "bold_mask">>,
        <<"fmapreg_buffer", "boldref2fmap_xfm", "outputnode", "boldref2fmap_xfm">>,
        <<"hmc_buffer", "hmc_xforms", "outputnode", "motion_xfm">>,
        <<"inputnode", "bold_file", "func_fit_reports_wf", "inputnode.source_file">>,
        <<"inputnode", "t1w_preproc", "func_fit_reports_wf", "inputnode.t1w_preproc">>,
        <<"inputnode", "t1w_mask", "func_fit_reports_wf", "inputnode.t1w_mask">>,
        <<"inputnode", "t1w_dseg", "func_fit_reports_wf", "inputnode.t1w_dseg">>,
        <<"inputnode", "subjects_dir", "func_fit_reports_wf", "inputnode.subjects_dir">>,
        <<"inputnode", "subject_id", "func_fit_reports_wf", "inputnode.subject_id">>,
        <<"outputnode", "coreg_boldref", "func_fit_reports_wf", "inputnode.coreg_boldref">>,
        <<"outputnode", "boldref2anat_xfm", "func_fit_reports_wf", "inputnode.boldref2anat_xfm">>,
        <<"summary", "out_report", "func_fit_reports_wf", "inputnode.summary_report">>
    })

\* Stage 1 taking the cached-reference branch when the motion transforms
\* are cached, whether or not the reference is
Stage1_ReadsUnchecked(wf, pre) ==
    IF ~Truthy(hmc_xforms(pre))
    THEN connect(
            set_input(
                set_input(wf, "hmc_boldref_wf", "inputnode.dummy_scans", Arg("dummy_scans")),
                "ds_hmc_boldref_wf", "inputnode.source_files", Arg("bold_file")),
            {<<"hmc_boldref_wf", "outputnode.bold_file", "hmcref_buffer", "bold_file">>,
             <<"hmc_boldref_wf", "outputnode.boldref", "hmcref_buffer", "boldref">>,
             <<"hmcref_buffer", "boldref", "ds_hmc_boldref_wf", "inputnode.boldref">>,
             <<"hmc_boldref_wf", "outputnode.algo_dummy_scans", "summary", "algo_dummy_scans">>,
             <<"hmc_boldref_wf", "outputnode.validation_report",
               "func_fit_reports_wf", "inputnode.validation_report">>})
    ELSE connect(
            set_input(
                set_input(wf, "validate_bold", "in_file", Arg("bold_file")),
                "hmcref_buffer", "boldref", Cached(Subscript(pre, "hmc_boldref"))),
            {<<"validate_bold", "out_file", "hmcref_buffer", "bold_file">>,
             <<"validate_bold", "out_report",
               "func_fit_reports_wf", "inputnode.validation_report">>})

\* Stage 1 with the cached-reference branch forgetting to hand the validated
\* series to hmcref_buffer
Stage1_NoValidatedFile(wf, pre) ==
    IF ~have_hmcref(pre)
    THEN connect(
            set_input(
                set_input(wf, "hmc_boldref_wf", "inputnode.dummy_scans", Arg("dummy_scans")),
                "ds_hmc_boldref_wf", "inputnode.source_files", Arg("bold_file")),
            {<<"hmc_boldref_wf", "outputnode.bold_file", "hmcref_buffer", "bold_file">>,
             <<"hmc_boldref_wf", "outputnode.boldref", "hmcref_buffer", "boldref">>,
             <<"hmcref_buffer", "boldref", "ds_hmc_boldref_wf", "inputnode.boldref">>,
             <<"hmc_boldref_wf", "outputnode.algo_dummy_scans", "summary", "algo_dummy_scans">>,
             <<"hmc_boldref_wf", "outputnode.validation_report",
               "func_fit_reports_wf", "inputnode.validation_report">>})
    ELSE connect(
            set_input(
                set_input(wf, "validate_bold", "in_file", Arg("bold_file")),
                "hmcref_buffer", "boldref", Cached(Subscript(pre, "hmc_boldref"))),
            {<<"validate_bold", "out_report",
               "func_fit_reports_wf", "inputnode.validation_report">>})

\* fit.py:340-384, Stage 1: generate the motion correction boldref
Stage1(wf, pre) ==
    IF ~have_hmcref(pre)
    THEN connect(
            set_input(
                set_input(wf, "hmc_boldref_wf", "inputnode.dummy_scans", Arg("dummy_scans")),
                "ds_hmc_boldref_wf", "inputnode.source_files", Arg("bold_file")),
            {<<"hmc_boldref_wf", "outputnode.bold_file", "hmcref_buffer", "bold_file">>,
             <<"hmc_boldref_wf", "outputnode.boldref", "hmcref_buffer", "boldref">>,
             <<"hmcref_buffer", "boldref", "ds_hmc_boldref_wf", "inputnode.boldref">>,
             <<"hmc_boldref_wf", "outputnode.algo_dummy_scans", "summary", "algo_dummy_scans">>,
             <<"hmc_boldref_wf", "outputnode.validation_report",
               "func_fit_reports_wf", "inputnode.validation_report">>})
    ELSE connect(
            set_input(
                set_input(wf, "validate_bold", "in_file", Arg("bold_file")),
                "hmcref_buffer", "boldref", Cached(Subscript(pre, "hmc_boldref"))),
            {<<"validate_bold", "out_file", "hmcref_buffer", "bold_file">>,
             <<"validate_bold", "out_report",
               "func_fit_reports_wf", "inputnode.validation_report">>})

\* Stage 2 deciding on the presence of the cached reference instead of the
\* cached motion transforms
Stage2_TestsHmcref(wf, pre) ==
    IF ~have_hmcref(pre)
    THEN connect(
            set_input(wf, "ds_hmc_wf", "inputnode.source_files", Arg("bold_file")),
            {<<"hmcref_buffer", "boldref", "bold_hmc_wf", "inputnode.raw_ref_image">>,
             <<"hmcref_buffer", "bold_file", "bold_hmc_wf", "inputnode.bold_file">>,
             <<"bold_hmc_wf", "outputnode.xforms", "ds_hmc_wf", "inputnode.xforms">>,
             <<"ds_hmc_wf", "outputnode.xforms", "hmc_buffer", "hmc_xforms">>})
    ELSE set_input(wf, "hmc_buffer", "hmc_xforms", Cached(hmc_xforms(pre)))

\* fit.py:386-411, Stage 2: estimate head motion
Stage2(wf, pre) ==
    IF ~Truthy(hmc_xforms(pre))
    THEN connect(
            set_input(wf, "ds_hmc_wf", "inputnode.source_files", Arg("bold_file")),
            {<<"hmcref_buffer", "boldref", "bold_hmc_wf", "inputnode.raw_ref_image">>,
             <<"hmcref_buffer", "bold_file", "bold_hmc_wf", "inputnode.bold_file">>,
             <<"bold_hmc_wf", "outputnode.xforms", "ds_hmc_wf", "inputnode.xforms">>,
             <<"ds_hmc_wf", "outputnode.xforms", "hmc_buffer", "hmc_xforms">>})
    ELSE set_input(wf, "hmc_buffer", "hmc_xforms", Cached(hmc_xforms(pre)))

\* the fieldmap registration added whether or not its transform is cached
FmapReg_IgnoresCache(wf, pre) ==
    connect(wf, {
        <<"enhance_boldref_wf", "outputnode.bias_corrected_file",
          "fmapreg_wf", "inputnode.target_ref">>,
        <<"enhance_boldref_wf", "outputnode.mask_file",
          "fmapreg_wf", "inputnode.target_mask">>,
        <<"fmap_select", "fmap_ref", "fmapreg_wf", "inputnode.fmap_ref">>,
        <<"fmap_select", "fmap_mask", "fmapreg_wf", "inputnode.fmap_mask">>,
        <<"fmapreg_wf", "outputnode.target2fmap_xfm", "itk_mat2txt", "in_xfms">>,
        <<"itk_mat2txt", "out_xfm", "ds_fmapreg_wf", "inputnode.xform">>,
        <<"fmapref_buffer", "out", "ds_fmapreg_wf", "inputnode.source_files">>,
        <<"ds_fmapreg_wf", "outputnode.xform", "fmapreg_buffer", "boldref2fmap_xfm">>})

\* fit.py:449-484: register the reference to the fieldmap, unless cached
FmapReg(wf, pre) ==
    IF ~Truthy(boldref2fmap_xform(pre))
    THEN connect(wf, {
            <<"enhance_boldref_wf", "outputnode.bias_corrected_file",
              "fmapreg_wf", "inputnode.target_ref">>,
            <<"enhance_boldref_wf", "outputnode.mask_file",
              "fmapreg_wf", "inputnode.target_mask">>,
            <<"fmap_select", "fmap_ref", "fmapreg_wf", "inputnode.fmap_ref">>,
            <<"fmap_select", "fmap_mask", "fmapreg_wf", "inputnode.fmap_mask">>,
            <<"fmapreg_wf", "outputnode.target2fmap_xfm", "itk_mat2txt", "in_xfms">>,
            <<"itk_mat2txt", "out_xfm", "ds_fmapreg_wf", "inputnode.xform">>,
            <<"fmapref_buffer", "out", "ds_fmapreg_wf", "inputnode.source_files">>,
            <<"ds_fmapreg_wf", "outputnode.xform", "fmapreg_buffer", "boldref2fmap_xfm">>})
    ELSE set_input(wf, "fmapreg_buffer", "boldref2fmap_xfm", Cached(boldref2fmap_xform(pre)))

\* the unwarp sub-stage with the connections of the no-estimator branch
\* made as well
Unwarp_KeepsEnhancedOutputs(wf) ==
    connect(
        set_input(wf, "unwarp_wf", "inputnode.metadata", Arg("metadata")),
        {<<"inputnode", "fmap_ref", "fmap_select", "fmap_ref">>,
         <<"inputnode", "fmap_coeff", "fmap_select", "fmap_coeff">>,
         <<"inputnode", "fmap_mask", "fmap_select", "fmap_mask">>,
         <<"inputnode", "sdc_method", "fmap_select", "sdc_method">>,
         <<"inputnode", "fmap_id", "fmap_select", "keys">>,
         <<"fmap_select", "fmap_coeff", "unwarp_wf", "inputnode.fmap_coeff">>,
         <<"fmapreg_buffer", "boldref2fmap_xfm", "unwarp_wf", "inputnode.fmap2data_xfm">>,
         <<"enhance_boldref_wf", "outputnode.bias_corrected_file",
           "unwarp_wf", "inputnode.distorted">>,
         <<"unwarp_wf", "outputnode.corrected", "ds_coreg_boldref_wf", "inputnode.boldref">>,
         <<"unwarp_wf", "outputnode.corrected_mask", "regref_buffer", "boldmask">>,
         <<"enhance_boldref_wf", "outputnode.bias_corrected_file",
           "ds_coreg_boldref_wf", "inputnode.boldref">>,
         <<"enhance_boldref_wf", "outputnode.mask_file", "regref_buffer", "boldmask">>,
         <<"fmap_select", "fmap_ref", "func_fit_reports_wf", "inputnode.fmap_ref">>,
         <<"fmap_select", "sdc_method", "summary", "distortion_correction">>,
         <<"fmapreg_buffer", "boldref2fmap_xfm",
           "func_fit_reports_wf", "inputnode.boldref2fmap_xfm">>,
         <<"unwarp_wf", "outputnode.fieldmap", "func_fit_reports_wf", "inputnode.fieldmap">>})

\* fit.py:486-528: the unwarp sub-stage and its reporting connections
Unwarp(wf) ==
    connect(
        set_input(wf, "unwarp_wf", "inputnode.metadata", Arg("metadata")),
        {<<"inputnode", "fmap_ref", "fmap_select", "fmap_ref">>,
         <<"inputnode", "fmap_coeff", "fmap_select", "fmap_coeff">>,
         <<"inputnode", "fmap_mask", "fmap_select", "fmap_mask">>,
         <<"inputnode", "sdc_method", "fmap_select", "sdc_method">>,
         <<"inputnode", "fmap_id", "fmap_select", "keys">>,
         <<"fmap_select", "fmap_coeff", "unwarp_wf", "inputnode.fmap_coeff">>,
         <<"fmapreg_buffer", "boldref2fmap_xfm", "unwarp_wf", "inputnode.fmap2data_xfm">>,
         <<"enhance_boldref_wf", "outputnode.bias_corrected_file",
           "unwarp_wf", "inputnode.distorted">>,
         <<"unwarp_wf", "outputnode.corrected", "ds_coreg_boldref_wf", "inputnode.boldref">>,
         <<"unwarp_wf", "outputnode.corrected_mask", "regref_buffer", "boldmask">>,
         <<"fmap_select", "fmap_ref", "func_fit_reports_wf", "inputnode.fmap_ref">>,
         <<"fmap_select", "sdc_method", "summary", "distortion_correction">>,
         <<"fmapreg_buffer", "boldref2fmap_xfm",
           "func_fit_reports_wf", "inputnode.boldref2fmap_xfm">>,
         <<"unwarp_wf", "outputnode.fieldmap", "func_fit_reports_wf", "inputnode.fieldmap">>})

\* fit.py:529-539: no estimator, the enhanced reference is the coregistration reference
NoUnwarp(wf) ==
    connect(wf, {
        <<"enhance_boldref_wf", "outputnode.bias_corrected_file",
          "ds_coreg_boldref_wf", "inputnode.boldref">>,
        <<"enhance_boldref_wf", "outputnode.mask_file", "regref_buffer", "boldmask">>})

\* the coregistration reference persisted from regref_buffer, the way
\* Stage 1 persists the motion reference from hmcref_buffer
EnhanceBoldref_PersistsFromBuffer(wf) ==
    connect(
        set_input(wf, "fmapref_buffer", "sbref_files", Arg("sbref_files")),
        {<<"hmcref_buffer", "boldref", "fmapref_buffer", "boldref_files">>,
         <<"fmapref_buffer", "out", "enhance_boldref_wf", "inputnode.in_file">>,
         <<"fmapref_buffer", "out", "ds_coreg_boldref_wf", "inputnode.source_files">>,
         <<"ds_coreg_boldref_wf", "outputnode.boldref", "regref_buffer", "boldref">>,
         <<"regref_buffer", "boldref", "ds_coreg_boldref_wf", "inputnode.boldref">>,
         <<"fmapref_buffer", "out", "func_fit_reports_wf", "inputnode.sdc_boldref">>})

\* fit.py:418-437: select the initial boldref, enhance contrast, generate the mask
EnhanceBoldref(wf) ==
    connect(
        set_input(wf, "fmapref_buffer", "sbref_files", Arg("sbref_files")),
        {<<"hmcref_buffer", "boldref", "fmapref_buffer", "boldref_files">>,
         <<"fmapref_buffer", "out", "enhance_boldref_wf", "inputnode.in_file">>,
         <<"fmapref_buffer", "out", "ds_coreg_boldref_wf", "inputnode.source_files">>,
         <<"ds_coreg_boldref_wf", "outputnode.boldref", "regref_buffer", "boldref">>,
         <<"fmapref_buffer", "out", "func_fit_reports_wf", "inputnode.sdc_boldref">>})

\* Stage 3 adding the distortion branch whether or not an estimator is assigned
Stage3_AlwaysUnwarp(wf, pre, fid) ==
    IF ~have_coregref(pre)
    THEN Unwarp(FmapReg(
            set_input(EnhanceBoldref(wf), "fmap_select", "key", Arg("fieldmap_id")),
            pre))
    ELSE set_input(wf, "regref_buffer", "boldref", Cached(Subscript(pre, "coreg_boldref")))

\* fit.py:413-542, Stage 3: create the coregistration reference
Stage3(wf, pre, fid) ==
    IF ~have_coregref(pre)
    THEN IF Truthy(fid)
         THEN Unwarp(FmapReg(
                set_input(EnhanceBoldref(wf), "fmap_select", "key", Arg("fieldmap_id")),
                pre))
         ELSE NoUnwarp(EnhanceBoldref(wf))
    ELSE set_input(wf, "regref_buffer", "boldref", Cached(Subscript(pre, "coreg_boldref")))

\* Stage 4 handing the transform of bold_reg_wf to the output directly, with
\* its persistence on a side branch
Stage4_SkipsPersistence(wf, pre) ==
    IF ~Truthy(boldref2anat_xform(pre))
    THEN connect(wf, {
            <<"inputnode", "t1w_preproc", "bold_reg_wf", "inputnode.t1w_preproc">>,
            <<"inputnode", "t1w_mask", "bold_reg_wf", "inputnode.t1w_mask">>,
            <<"inputnode", "t1w_dseg", "bold_reg_wf", "inputnode.t1w_dseg">>,
            <<"inputnode", "subjects_dir", "bold_reg_wf", "inputnode.subjects_dir">>,
            <<"inputnode", "subject_id", "bold_reg_wf", "inputnode.subject_id">>,
            <<"inputnode", "fsnative2t1w_xfm", "bold_reg_wf", "inputnode.fsnative2t1w_xfm">>,
            <<"regref_buffer", "boldref", "bold_reg_wf", "inputnode.ref_bold_brain">>,
            <<"regref_buffer", "boldref", "ds_boldreg_wf", "inputnode.source_files">>,
            <<"bold_reg_wf", "outputnode.itk_bold_to_t1", "ds_boldreg_wf", "inputnode.xform">>,
            <<"bold_reg_wf", "outputnode.itk_bold_to_t1", "outputnode", "boldref2anat_xfm">>,
            <<"bold_reg_wf", "outputnode.fallback", "summary", "fallback">>})
    ELSE set_input(wf, "outputnode", "boldref2anat_xfm", Cached(boldref2anat_xform(pre)))

\* fit.py:544-587: register the coregistration reference to the anatomical
Stage4(wf, pre) ==
    IF ~Truthy(boldref2anat_xform(pre))
    THEN connect(wf, {
            <<"inputnode", "t1w_preproc", "bold_reg_wf", "inputnode.t1w_preproc">>,
            <<"inputnode", "t1w_mask", "bold_reg_wf", "inputnode.t1w_mask">>,
            <<"inputnode", "t1w_dseg", "bold_reg_wf", "inputnode.t1w_dseg">>,
            <<"inputnode", "subjects_dir", "bold_reg_wf", "inputnode.subjects_dir">>,
            <<"inputnode", "subject_id", "bold_reg_wf", "inputnode.subject_id">>,
            <<"inputnode", "fsnative2t1w_xfm", "bold_reg_wf", "inputnode.fsnative2t1w_xfm">>,
            <<"regref_buffer", "boldref", "bold_reg_wf", "inputnode.ref_bold_brain">>,
            <<"regref_buffer", "boldref", "ds_boldreg_wf", "inputnode.source_files">>,
            <<"bold_reg_wf", "outputnode.itk_bold_to_t1", "ds_boldreg_wf", "inputnode.xform">>,
            <<"ds_boldreg_wf", "outputnode.xform", "outputnode", "boldref2anat_xfm">>,
            <<"bold_reg_wf", "outputnode.fallback", "summary", "fallback">>})
    ELSE set_input(wf, "outputnode", "boldref2anat_xfm", Cached(boldref2anat_xform(pre)))

\* the call ended at a subscript of the cache that raised KeyError
MissingSlotRead(wf) == \E i \in wf.inputs : i[3] = Cached(KeyError)

\* fit.py:94-589
init_bold_fit_wf(pre, fid) ==
    Stage4(
        Stage3(
            Stage2(
                Stage1(
                    BaseConnections(
                        set_input(
                            set_input(NewWorkflow, "inputnode", "bold_file", Arg("bold_series")),
                            "summary", "dummy_scans", Arg("dummy_scans"))),
                    pre),
                pre),
            pre, fid),
        pre)

(***************************************************************************)
(* Reading a workflow: where does the value of an input port come from?    *)
(***************************************************************************)

\* fit.py:236-288: the IdentityInterface nodes and their fields; an identity
\* node hands the value of input port p to its output port p
IdentityFields ==
    [inputnode |-> {"bold_file", "fmap", "fmap_ref", "fmap_coeff", "fmap_mask", "fmap_id",
                    "sdc_method", "t1w_preproc", "t1w_mask", "t1w_dseg", "subjects_dir",
                    "subject_id", "fsnative2t1w_xfm"},
     outputnode |-> {"dummy_scans", "hmc_boldref", "coreg_boldref", "bold_mask",
                     "motion_xfm", "boldref2anat_xfm", "boldref2fmap_xfm"},
     hmcref_buffer |-> {"boldref", "bold_file"},
     hmc_buffer |-> {"hmc_xforms"},
     fmapreg_buffer |-> {"boldref2fmap_xfm"},
     regref_buffer |-> {"boldref", "boldmask"}]

IdentityNodes == DOMAIN IdentityFields

\* fit.py:875-879: fmapref_buffer runs _select_ref(sbref_files, boldref_files)
SelectRefInputs == {"sbref_files", "boldref_files"}

\* the stages that compute a derived artifact
ProducingStages ==
    {"hmc_boldref_wf", "bold_hmc_wf", "enhance_boldref_wf", "fmapreg_wf", "unwarp_wf",
     "bold_reg_wf"}

RECURSIVE OriginsUpTo(_, _, _, _)
\* The ultimate sources of input port p of node n, followed back through
\* the identity nodes: a statically set value, a port of the graph's
\* inputnode, or an output port of a stage.
OriginsUpTo(wf, n, p, depth) ==
    {<<"value", t[3][1], t[3][2]>> : t \in {i \in wf.inputs : i[1] = n /\ i[2] = p}}
    \cup UNION {
        IF e[1] = "inputnode"
        THEN {<<"input", "inputnode", e[2]>>}
        ELSE IF e[1] \in IdentityNodes
             THEN IF depth = 0 THEN {} ELSE OriginsUpTo(wf, e[1], e[2], depth - 1)
             ELSE {<<"stage", e[1], e[2]>>}
        : e \in {x \in wf.edges : x[3] = n /\ x[4] = p}}

Origins(wf, n, p) == OriginsUpTo(wf, n, p, Cardinality(IdentityNodes))

FromCache(a) == <<"value", "cached", a>>

FromStage(n, p) == <<"stage", n, p>>

(***************************************************************************)
(* map_fieldmap_estimation (base.py:892-965)                               *)
(*                                                                         *)
(* layout.estimators is what sdcflows' find_estimators returns for the     *)
(* subject, layout.intended[f] what get_estimator returns for file f (the  *)
(* declared candidates, in declaration order).  A series of bold_data is   *)
(* the list of its echo files.                                             *)
(***************************************************************************)
Range(seq) == {seq[i] : i \in 1..Len(seq)}

\* niworkflows listify(bold_file)[0]
FirstFile(bold_file) == bold_file[1]

\* base.py:912-918
find_estimators(lay) == lay.estimators

\* base.py:943-944
get_estimator(lay, bold_file) == lay.intended[bold_file]

\* Python truthiness of use_syn, which is False, True or "error"
SynRequested(cfg) == cfg.use_syn # "False"

\* base.py:901: any((not ignore_fieldmaps, use_syn, force_syn))
DiscoveryRuns(cfg) == ~cfg.ignore_fieldmaps \/ SynRequested(cfg) \/ cfg.force_syn

IsAnat(f) == f.method = "ANAT"

\* base.py:931-936: with --ignore fieldmaps keep the ANAT estimators, if any
AnatFilter(cfg, found) ==
    IF cfg.ignore_fieldmaps /\ \E i \in 1..Len(found) : IsAnat(found[i])
    THEN SelectSeq(found, IsAnat)
    ELSE found

\* base.py:940
AllIds(estimators) == {f.bids_id : f \in Range(estimators)}

\* the declared candidates taken as they are, known or not
AllEstimators_NoKnownFilter(lay, bd, all_ids) ==
    [bold_file \in {FirstFile(b) : b \in Range(bd)} |-> get_estimator(lay, bold_file)]

\* base.py:941-946: per first file, the declared candidates that are known
AllEstimators(lay, bd, all_ids) ==
    [bold_file \in {FirstFile(b) : b \in Range(bd)} |->
        SelectSeq(get_estimator(lay, bold_file), LAMBDA fmap_id : fmap_id \in all_ids)]

\* base.py:948-953: one warning per series with several known candidates
SeveralWarnings(bd, all_estimators) ==
    LET several(i) == Len(all_estimators[FirstFile(bd[i])]) > 1
        idx == SelectSeq([i \in 1..Len(bd) |-> i], several)
    IN  [k \in 1..Len(idx) |->
            [level |-> "warning",
             bold_file |-> FirstFile(bd[idx[k]]),
             candidates |-> all_estimators[FirstFile(bd[idx[k]])],
             using |-> all_estimators[FirstFile(bd[idx[k]])][1]]]

\* keeping the last known candidate instead of the first
KeepFirst_KeepsLast(all_estimators) ==
    [bold_file \in DOMAIN all_estimators |->
        IF Len(all_estimators[bold_file]) > 1
        THEN <<all_estimators[bold_file][Len(all_estimators[bold_file])]>>
        ELSE all_estimators[bold_file]]

\* base.py:954: estimator_key[1:] = []
KeepFirst(all_estimators) ==
    [bold_file \in DOMAIN all_estimators |->
        IF Len(all_estimators[bold_file]) > 1
        THEN <<all_estimators[bold_file][1]>>
        ELSE all_estimators[bold_file]]

\* base.py:956-961: final 1-1 map, dropping the uncorrected series
EstimatorMap(all_estimators) ==
    [bold_file \in {b \in DOMAIN all_estimators : all_estimators[b] # <<>>} |->
        all_estimators[bold_file][1]]

\* no pruning: every known estimator is returned
Prune_KeepsAll(estimators, emap) == estimators

\* base.py:963
Prune(estimators, emap) ==
    SelectSeq(estimators, LAMBDA f : f.bids_id \in {emap[b] : b \in DOMAIN emap})

\* raising whenever SyN was requested, not only with the value "error"
SynAbsentRaises_WheneverRequested(cfg) == SynRequested(cfg)

\* base.py:927
SynAbsentRaises(cfg) == cfg.use_syn = "error"

\* base.py:921-926: the error logged when SyN was requested and nothing found
SynErrorLog == <<[level |-> "error", bold_file |-> None, candidates |-> <<>>, using |-> None]>>

MapResult(estimators, emap, lg, exc) ==
    [fmap_estimators |-> estimators, estimator_map |-> emap, log |-> lg, raised |-> exc]

\* base.py:892-965
map_fieldmap_estimation(cfg, lay, bd) ==
    IF ~DiscoveryRuns(cfg)
    THEN MapResult(<<>>, EmptyDict, <<>>, "none")
    ELSE IF find_estimators(lay) = <<>>
         THEN IF SynRequested(cfg)
              THEN IF SynAbsentRaises(cfg)
                   THEN MapResult(<<>>, EmptyDict, SynErrorLog, "ValueError")
                   ELSE MapResult(<<>>, EmptyDict, SynErrorLog, "none")
              ELSE MapResult(<<>>, EmptyDict, <<>>, "none")
         ELSE LET estimators == AnatFilter(cfg, find_estimators(lay))
                  all_estimators == AllEstimators(lay, bd, AllIds(estimators))
                  emap == EstimatorMap(KeepFirst(all_estimators))
              IN  MapResult(Prune(estimators, emap), emap,
                            SeveralWarnings(bd, all_estimators), "none")

(***************************************************************************)
(* init_single_subject_fit_wf (base.py:116-410), from the call of          *)
(* map_fieldmap_estimation on                                              *)
(***************************************************************************)
NoFmapWf == [built |-> FALSE, ids |-> {}, pepolar |-> {}, syn |-> {}]

\* the check of the number of sources without the check of their suffixes
PepolarSupported_LengthOnly(estimator) == Len(estimator.sources) = 2

\* base.py:310
PepolarSupported(estimator) ==
    /\ Len(estimator.sources) = 2
    /\ \A i \in 1..Len(estimator.sources) : estimator.sources[i] \in {"epi", "bold", "sbref"}

\* base.py:320: the functional sources of an ANAT estimator
FunctionalSources(estimator) ==
    SelectSeq(estimator.sources, LAMBDA suffix : suffix \in {"bold", "sbref"})

\* base.py:258-351: build the estimator workflow and wire PEPOLAR and ANAT inputs
SetupFmapWf(estimators) ==
    [built |-> TRUE,
     ids |-> AllIds(estimators),
     pepolar |-> {f.bids_id : f \in {g \in Range(estimators) : g.method = "PEPOLAR"}},
     syn |-> {<<f.bids_id, FunctionalSources(f)>> :
                 f \in {g \in Range(estimators) : g.method = "ANAT"}}]

\* base.py:309-315: the loop raises at a PEPOLAR estimator it does not support
UnsupportedPepolar(estimators) ==
    \E f \in Range(estimators) : f.method = "PEPOLAR" /\ ~PepolarSupported(f)

(***************************************************************************)
(* init_bold_native_wf (fit.py:592-872)                                    *)
(*                                                                         *)
(* An echo file is a record [name, EchoTime, shape]: its path, the         *)
(* EchoTime of layout.get_metadata and the shape nb.load reports.          *)
(* The graph is a record                                                   *)
(*   nodes, edges : as for init_bold_fit_wf,                               *)
(*   iterables    : the values echo_index iterates over (<<>> if none),    *)
(*   echoidx      : the index set statically on echo_index, or None,       *)
(*   inlist       : the files bold_source selects from,                    *)
(*   metadata     : the file whose metadata is set on outputnode,          *)
(*   echo_times   : the echo times given to init_bold_t2s_wf (<<>> if      *)
(*                  the stage is not built),                               *)
(*   joinsource   : the node join_echos joins over, or "" without join.    *)
(* Indices are Python's: they start at 0.                                  *)
(***************************************************************************)
RECURSIVE InsertByEchoTime(_, _)
\* places x behind every element whose key is not greater: the sort is stable
InsertByEchoTime(x, sorted) ==
    IF sorted = <<>> THEN <<x>>
    ELSE IF Head(sorted).EchoTime <= x.EchoTime
         THEN <<Head(sorted)>> \o InsertByEchoTime(x, Tail(sorted))
         ELSE <<x>> \o sorted

RECURSIVE SortedByEchoTime(_)
\* the files taken in the order supplied
SortedByEchoTime_AsSupplied(files) == files

\* fit.py:202 and fit.py:684-692: sorted(..., key=EchoTime)
SortedByEchoTime(files) ==
    IF files = <<>> THEN <<>>
    ELSE InsertByEchoTime(files[Len(files)],
                          SortedByEchoTime(SubSeq(files, 1, Len(files) - 1)))

\* fit.py:202-211: init_bold_fit_wf fits on the first file after sorting
FitReferenceEcho(files) == SortedByEchoTime(files)[1]

NoNativeGraph ==
    [nodes |-> {}, edges |-> {}, iterables |-> <<>>, echoidx |-> None, inlist |-> <<>>,
     metadata |-> None, echo_times |-> <<>>, joinsource |-> ""]

NoNative ==
    [returned |-> FALSE, raised |-> "none", message |-> "", diagnostic |-> <<>>,
     workflow |-> NoNativeGraph]

NativeRaised(exc, msg, diag) ==
    [returned |-> FALSE, raised |-> exc, message |-> msg, diagnostic |-> diag,
     workflow |-> NoNativeGraph]

NativeReturned(wf) ==
    [returned |-> TRUE, raised |-> "none", message |-> "", diagnostic |-> <<>>,
     workflow |-> wf]

MismatchingShapes == "Multi-echo images found with mismatching shapes"

FoundTwo == "Multi-echo processing requires at least three different echos (found two)."

\* fit.py:703-705: one line per echo file, with its shape
Diagnostic(bold_files) ==
    [i \in 1..Len(bold_files) |-> <<bold_files[i].name, bold_files[i].shape>>]

\* comparing the shapes of the first two echoes only
ShapesDiffer_FirstTwo(bold_files) == bold_files[1].shape # bold_files[2].shape

\* fit.py:701-702: len(set(shapes)) != 1
ShapesDiffer(bold_files) ==
    Cardinality({bold_files[i].shape : i \in 1..Len(bold_files)}) # 1

\* fit.py:749-769: metadata, echo index, source selection and validation
EchoSource(bold_files, multiecho) ==
    connect([NoNativeGraph EXCEPT
                 !.metadata = bold_files[1].name,
                 !.iterables = IF multiecho THEN [i \in 1..Len(bold_files) |-> i - 1]
                               ELSE <<>>,
                 !.echoidx = IF multiecho THEN None ELSE 0,
                 !.inlist = [i \in 1..Len(bold_files) |-> bold_files[i].name]],
            {<<"echo_index", "echoidx", "bold_source", "index">>,
             <<"bold_source", "out", "validate_bold", "in_file">>})

\* fit.py:771-780: slice-timing correction, or the validated file as it is
SliceTiming(wf, stc) ==
    IF stc
    THEN connect(wf, {<<"inputnode", "dummy_scans", "bold_stc_wf", "inputnode.skip_vols">>,
                      <<"validate_bold", "out_file", "bold_stc_wf", "inputnode.bold_file">>,
                      <<"bold_stc_wf", "outputnode.stc_file", "boldbuffer", "bold_file">>})
    ELSE connect(wf, {<<"validate_bold", "out_file", "boldbuffer", "bold_file">>})

\* fit.py:782-805: fieldmap selection and distortion parameters
FieldmapMetadata(wf, fid) ==
    IF Truthy(fid)
    THEN connect(wf, {<<"inputnode", "fmap_ref", "fmap_select", "fmap_ref">>,
                      <<"inputnode", "fmap_coeff", "fmap_select", "fmap_coeff">>,
                      <<"inputnode", "fmap_id", "fmap_select", "keys">>,
                      <<"distortion_params", "readout_time", "boldbuffer", "ro_time">>,
                      <<"distortion_params", "pe_direction", "boldbuffer", "pe_dir">>})
    ELSE wf

\* the resampler without the motion transforms
ResampleToBoldref_NoMotion(wf) ==
    connect(wf, {<<"inputnode", "boldref", "boldref_bold", "ref_file">>,
                 <<"boldbuffer", "bold_file", "boldref_bold", "in_file">>,
                 <<"boldbuffer", "ro_time", "boldref_bold", "ro_time">>,
                 <<"boldbuffer", "pe_dir", "boldref_bold", "pe_dir">>})

\* fit.py:807-820
ResampleToBoldref(wf) ==
    connect(wf, {<<"inputnode", "boldref", "boldref_bold", "ref_file">>,
                 <<"inputnode", "motion_xfm", "boldref_bold", "transforms">>,
                 <<"boldbuffer", "bold_file", "boldref_bold", "in_file">>,
                 <<"boldbuffer", "ro_time", "boldref_bold", "ro_time">>,
                 <<"boldbuffer", "pe_dir", "boldref_bold", "pe_dir">>})

\* fit.py:822-834: the fieldmap reconstructed in the space of the reference
ReconstructFieldmap(wf, fid) ==
    IF Truthy(fid)
    THEN connect(wf, {<<"inputnode", "boldref", "boldref_fmap", "target_ref_file">>,
                      <<"inputnode", "boldref2fmap_xfm", "boldref_fmap", "transforms">>,
                      <<"fmap_select", "fmap_coeff", "boldref_fmap", "in_coeffs">>,
                      <<"fmap_select", "fmap_ref", "boldref_fmap", "fmap_ref_file">>,
                      <<"boldref_fmap", "out_file", "boldref_bold", "fieldmap">>})
    ELSE wf

\* the join collecting the files as they enter the resampler, not its outputs
JoinEchos_JoinsUnresampled(wf, echo_times) ==
    connect([wf EXCEPT !.joinsource = "echo_index", !.echo_times = echo_times],
            {<<"inputnode", "bold_mask", "bold_t2smap_wf", "inputnode.bold_mask">>,
             <<"boldbuffer", "bold_file", "join_echos", "bold_files">>,
             <<"join_echos", "bold_files", "bold_t2smap_wf", "inputnode.bold_file">>,
             <<"join_echos", "bold_files", "outputnode", "bold_echos">>,
             <<"bold_t2smap_wf", "outputnode.bold", "outputnode", "bold_minimal">>,
             <<"bold_t2smap_wf", "outputnode.bold", "outputnode", "bold_native">>,
             <<"bold_t2smap_wf", "outputnode.t2star_map", "outputnode", "t2star_map">>})

\* fit.py:836-864: the join over echo_index and the optimal combination
JoinEchos(wf, echo_times) ==
    connect([wf EXCEPT !.joinsource = "echo_index", !.echo_times = echo_times],
            {<<"inputnode", "bold_mask", "bold_t2smap_wf", "inputnode.bold_mask">>,
             <<"boldref_bold", "out_file", "join_echos", "bold_files">>,
             <<"join_echos", "bold_files", "bold_t2smap_wf", "inputnode.bold_file">>,
             <<"join_echos", "bold_files", "outputnode", "bold_echos">>,
             <<"bold_t2smap_wf", "outputnode.bold", "outputnode", "bold_minimal">>,
             <<"bold_t2smap_wf", "outputnode.bold", "outputnode", "bold_native">>,
             <<"bold_t2smap_wf", "outputnode.t2star_map", "outputnode", "t2star_map">>})

\* fit.py:865-870
SingleEcho(wf) ==
    connect(wf, {<<"inputnode", "motion_xfm", "outputnode", "motion_xfm">>,
                 <<"boldbuffer", "bold_file", "outputnode", "bold_minimal">>,
                 <<"boldref_bold", "out_file", "outputnode", "bold_native">>})

\* fit.py:714-872: the graph, once the echoes passed the checks
NativeGraph(bold_files, fid, stc) ==
    LET multiecho == Len(bold_files) > 1
        echo_times == [i \in 1..Len(bold_files) |-> bold_files[i].EchoTime]
        resampled == ReconstructFieldmap(
                         ResampleToBoldref(
                             FieldmapMetadata(
                                 SliceTiming(EchoSource(bold_files, multiecho), stc), fid)),
                         fid)
    IN  IF multiecho THEN JoinEchos(resampled, echo_times) ELSE SingleEcho(resampled)

\* fit.py:592-872
init_bold_native_wf(series, fid, stc) ==
    IF series = <<>>
    THEN \* fit.py:684: zip() of nothing yields nothing to unpack into three names
         NativeRaised("ValueError", "not enough values to unpack", <<>>)
    ELSE LET bold_files == SortedByEchoTime(series)
             multiecho == Len(bold_files) > 1
         IN  IF multiecho /\ ShapesDiffer(bold_files)
             THEN NativeRaised("RuntimeError", MismatchingShapes, Diagnostic(bold_files))
             ELSE IF multiecho /\ Len(bold_files) = 2
                  THEN NativeRaised("RuntimeError", FoundTwo, <<>>)
                  ELSE NativeReturned(NativeGraph(bold_files, fid, stc))

(***************************************************************************)
(* The graph nipype executes for the graph init_bold_native_wf returns:    *)
(* identity nodes other than the iterable and the join are removed and     *)
(* their connections joined up; every node that depends on echo_index, up  *)
(* to the join, exists once per value of the iterable; join_echos          *)
(* (fit.py:837-842) collects one value per copy.                           *)
(* A node of the executed graph is <<name, index>>, with index Shared for  *)
(* a node that is not iterated.                                            *)
(***************************************************************************)
Shared == -1

\* fit.py:716-753: the identity nodes that are neither iterable nor join
PlainIdentityNodes == {"inputnode", "outputnode", "boldbuffer"}

RECURSIVE StagePredsUpTo(_, _, _)
\* the executed nodes whose output reaches node n, directly or through
\* plain identity nodes
StagePredsUpTo(wf, n, depth) ==
    UNION {IF e[1] \in PlainIdentityNodes
           THEN IF depth = 0 THEN {} ELSE StagePredsUpTo(wf, e[1], depth - 1)
           ELSE {e[1]}
           : e \in {x \in wf.edges : x[3] = n}}

ExecNodes(wf) == wf.nodes \ PlainIdentityNodes

ExecEdges(wf) ==
    {<<a, b>> : a \in ExecNodes(wf), b \in ExecNodes(wf)}
    \cap UNION {{<<a, b>> : a \in StagePredsUpTo(wf, b, Cardinality(PlainIdentityNodes))}
                : b \in ExecNodes(wf)}

RECURSIVE DescendantsUpTo(_, _, _)
DescendantsUpTo(E, from, depth) ==
    LET next == from \cup {e[2] : e \in {x \in E : x[1] \in from}}
    IN  IF depth = 0 \/ next = from THEN from ELSE DescendantsUpTo(E, next, depth - 1)

Descendants(wf, n) ==
    LET E == ExecEdges(wf) IN DescendantsUpTo(E, {n}, Cardinality(wf.nodes))

\* the nodes that exist once per echo: echo_index and what depends on it,
\* short of the join
Iterated(wf) ==
    IF wf.iterables = <<>> THEN {}
    ELSE IF wf.joinsource = "" THEN Descendants(wf, "echo_index")
         ELSE Descendants(wf, "echo_index") \ Descendants(wf, "join_echos")

\* the indices a node exists for, given the iterated nodes
Indices(wf, iterated, n) == IF n \in iterated THEN Range(wf.iterables) ELSE {Shared}

ExpandedNodes(wf) ==
    LET iterated == Iterated(wf)
    IN  UNION {{<<n, i>> : i \in Indices(wf, iterated, n)} : n \in ExecNodes(wf)}

\* an edge between two copies stays within one index; an edge into or out of
\* the iterated part is repeated for every index
ExpandedEdges(wf) ==
    LET iterated == Iterated(wf)
    IN  UNION {{<<<<e[1], ij[1]>>, <<e[2], ij[2]>>>> :
                    ij \in {x \in Indices(wf, iterated, e[1]) \X Indices(wf, iterated, e[2]) :
                               x[1] = x[2] \/ x[1] = Shared \/ x[2] = Shared}}
               : e \in ExecEdges(wf)}

Preds(wf, node) == {e[1] : e \in {x \in ExpandedEdges(wf) : x[2] = node}}

(***************************************************************************)
(* init_single_subject_wf (base.py:413-889), anat_only off: the discovery  *)
(* and pruning of estimators, which also edits the registry fm._estimators *)
(* of sdcflows that every subject of the run shares.                       *)
(***************************************************************************)
\* base.py:708-712: every candidate id declared for any series of the subject
UsedEstimators(lay, bd) == UNION {Range(get_estimator(lay, FirstFile(b))) : b \in Range(bd)}

\* base.py:721-724: every registry entry outside the final ids is deleted
PrunedRegistry(reg, estimators) == reg \ (reg \ AllIds(estimators))

SubjectWfResult(estimators, lg, exc, reg) ==
    [fmap_estimators |-> estimators, log |-> lg, raised |-> exc, registry |-> reg]

\* base.py:470-477 and base.py:651-724
SubjectWfEstimators(cfg, lay, bd, reg) ==
    IF bd = <<>>
    THEN SubjectWfResult(<<>>, <<>>, "RuntimeError", reg)
    ELSE IF ~DiscoveryRuns(cfg)
    THEN SubjectWfResult(<<>>, <<>>, "none", reg)
    ELSE IF find_estimators(lay) = <<>>
         THEN IF SynRequested(cfg)
              THEN IF SynAbsentRaises(cfg)
                   THEN SubjectWfResult(<<>>, SynErrorLog, "ValueError", reg)
                   ELSE SubjectWfResult(<<>>, SynErrorLog, "none", reg)
              ELSE SubjectWfResult(<<>>, <<>>, "none", reg)
         ELSE LET estimators == AnatFilter(cfg, find_estimators(lay))
                  used == SelectSeq(estimators,
                                    LAMBDA f : f.bids_id \in UsedEstimators(lay, bd))
              IN  SubjectWfResult(used, <<>>, "none", PrunedRegistry(reg, used))

(***************************************************************************)
(* Specification of one call of init_bold_fit_wf: the arguments are drawn  *)
(* in the initial state, the call builds the workflow.                     *)
(***************************************************************************)
IdleSubject ==
    /\ config_workflow = [ignore_fieldmaps |-> FALSE, use_syn |-> "False", force_syn |-> FALSE]
    /\ layout = [estimators |-> <<>>, intended |-> <<>>]
    /\ bold_data = <<>>
    /\ pc = "idle"
    /\ fmap_estimators = <<>>
    /\ estimator_map = EmptyDict
    /\ log = <<>>
    /\ raised = "none"
    /\ fmap_wf = NoFmapWf
    /\ func_fit_wfs = <<>>

IdleNative ==
    /\ registry = {}
    /\ bold_series = <<>>
    /\ run_stc = FALSE
    /\ native = NoNative
    /\ run_graph = EmptyDict
    /\ status = EmptyDict

InitFit ==
    /\ precomputed \in Caches
    /\ fieldmap_id \in {None} \cup (1..MaxEstimators)
    /\ workflow = NoWorkflow
    /\ IdleSubject
    /\ IdleNative

BoldFit ==
    /\ pc = "idle"
    /\ ~workflow.built
    /\ raised = "none"
    /\ LET wf == init_bold_fit_wf(precomputed, fieldmap_id)
       IN  IF MissingSlotRead(wf)
           THEN raised' = "KeyError" /\ UNCHANGED workflow
           ELSE workflow' = wf /\ UNCHANGED raised
    /\ UNCHANGED <<precomputed, fieldmap_id>>
    /\ UNCHANGED <<config_workflow, layout, bold_data, pc, fmap_estimators, estimator_map,
                   log, fmap_wf, func_fit_wfs>>
    /\ UNCHANGED <<registry, native_vars>>

NextFit == BoldFit

SpecFit == InitFit /\ [][NextFit]_vars

(***************************************************************************)
(* Specification of one call of init_single_subject_fit_wf with            *)
(* anat_only off: the flags, the layout and the series are drawn in the    *)
(* initial state, the call maps the estimators, sets them up and builds    *)
(* the fit workflow of every series.                                       *)
(***************************************************************************)

\* the kinds of estimators discovered, in the order sdcflows searches them;
\* the code never tells MAPPED from PHASEDIFF (base.py:304), so PHASEDIFF
\* stands for both
EstimatorKinds ==
    <<[method |-> "PHASEDIFF", sources |-> <<"phasediff", "magnitude1">>],
      [method |-> "PEPOLAR", sources |-> <<"epi", "epi">>],
      [method |-> "PEPOLAR", sources |-> <<"epi", "epi", "epi">>],
      [method |-> "ANAT", sources |-> <<"T1w", "bold">>]>>

Estimator(id, kind) == [bids_id |-> id, method |-> kind.method, sources |-> kind.sources]

\* Estimator ids are unique opaque labels and the code never looks at the
\* position of an estimator among those discovered, so the lists are drawn
\* up to renaming: the i-th estimator has id i and the kinds come in order.
EstimatorLists ==
    UNION {{[i \in 1..n |-> Estimator(i, EstimatorKinds[k[i]])] :
                k \in {c \in [1..n -> 1..Len(EstimatorKinds)] :
                          \A i, j \in 1..n : i <= j => c[i] <= c[j]}}
           : n \in 0..MaxEstimators}

\* the declared candidates of one series: ids without repetition, known or not
CandidateLists ==
    UNION {{c \in [1..n -> 1..MaxEstimators] : \A i, j \in 1..n : c[i] = c[j] => i = j}
           : n \in 0..MaxIntended}

RECURSIVE TotalLen(_)
TotalLen(seqs) == IF seqs = <<>> THEN 0 ELSE Len(Head(seqs)) + TotalLen(Tail(seqs))

\* per series, its candidates; the layout declares at most MaxIntended
\* IntendedFor targets in all
IntendedFor(n) == {d \in [1..n -> CandidateLists] : TotalLen(d) <= MaxIntended}

\* series i is the single file i
SeriesLists == {[i \in 1..n |-> <<i>>] : n \in 0..MaxSeries}

\* the functional derivatives found for the subject's series: none, or a
\* cached fieldmap registration
SubjectCaches == {EmptyDict, WithTransforms(EmptyDict, [slot \in {"boldref2fmap"} |-> 1])}

InitSubject ==
    /\ config_workflow \in [ignore_fieldmaps : BOOLEAN, use_syn : {"False", "True", "error"},
                            force_syn : BOOLEAN]
    /\ bold_data \in SeriesLists
    /\ layout \in [estimators : EstimatorLists, intended : IntendedFor(Len(bold_data))]
    /\ pc = "start"
    /\ fmap_estimators = <<>>
    /\ estimator_map = EmptyDict
    /\ log = <<>>
    /\ raised = "none"
    /\ fmap_wf = NoFmapWf
    /\ func_fit_wfs = <<>>
    /\ precomputed = EmptyDict
    /\ fieldmap_id = None
    /\ workflow = NoWorkflow
    /\ IdleNative

\* base.py:390-400: the connections of the estimator workflow's outputs to
\* the inputs of a series' fit workflow, <<source node, port, input port>>
FmapConnections ==
    {<<"fmap_wf", "outputnode.fmap", "inputnode.fmap">>,
     <<"fmap_wf", "outputnode.fmap_ref", "inputnode.fmap_ref">>,
     <<"fmap_wf", "outputnode.fmap_coeff", "inputnode.fmap_coeff">>,
     <<"fmap_wf", "outputnode.fmap_mask", "inputnode.fmap_mask">>,
     <<"fmap_wf", "outputnode.fmap_id", "inputnode.fmap_id">>,
     <<"fmap_wf", "outputnode.method", "inputnode.sdc_method">>}

\* one iteration of the loop connecting the estimator workflow whether or
\* not the series has an estimator
FitSeries_AlwaysConnects(bold_file, emap, functional_cache) ==
    LET fid == DictGet(emap, FirstFile(bold_file), None)
    IN  [bold_file |-> FirstFile(bold_file),
         fieldmap_id |-> fid,
         precomputed |-> functional_cache,
         workflow |-> init_bold_fit_wf(functional_cache, fid),
         connections |-> FmapConnections]

\* base.py:353-402: one iteration of the loop over the subject's series
FitSeries(bold_file, emap, functional_cache) ==
    LET fid == DictGet(emap, FirstFile(bold_file), None)
    IN  [bold_file |-> FirstFile(bold_file),
         fieldmap_id |-> fid,
         precomputed |-> functional_cache,
         workflow |-> init_bold_fit_wf(functional_cache, fid),
         connections |-> IF Truthy(fid) THEN FmapConnections ELSE {}]

\* base.py:116-410, anat_only off
SingleSubjectFit ==
    /\ pc = "start"
    /\ LET r == map_fieldmap_estimation(config_workflow, layout, bold_data)
       IN  /\ fmap_estimators' = r.fmap_estimators
           /\ estimator_map' = r.estimator_map
           /\ log' = r.log
           /\ IF r.raised # "none"
              THEN /\ raised' = r.raised
                   /\ pc' = "raised"
                   /\ UNCHANGED <<fmap_wf, func_fit_wfs>>
              ELSE IF UnsupportedPepolar(r.fmap_estimators)
                   THEN /\ raised' = "NotImplementedError"
                        /\ pc' = "raised"
                        /\ UNCHANGED <<fmap_wf, func_fit_wfs>>
                   ELSE /\ fmap_wf' = IF r.fmap_estimators # <<>>
                                      THEN SetupFmapWf(r.fmap_estimators)
                                      ELSE NoFmapWf
                        /\ \E functional_cache \in SubjectCaches :
                               func_fit_wfs' =
                                   [i \in 1..Len(bold_data) |->
                                       FitSeries(bold_data[i], r.estimator_map,
                                                 functional_cache)]
                        /\ pc' = "done"
                        /\ UNCHANGED raised
    /\ UNCHANGED <<config_workflow, layout, bold_data>>
    /\ UNCHANGED fit_vars
    /\ UNCHANGED <<registry, native_vars>>

NextSubject == SingleSubjectFit

SpecSubject == InitSubject /\ [][NextSubject]_vars

(***************************************************************************)
(* Specification of the estimator set-up loop, which base.py has twice     *)
(* (258-351 in init_single_subject_fit_wf, 826-888 in                      *)
(* init_single_subject_wf): the estimators to set up are drawn in the      *)
(* initial state, with any sources.                                        *)
(***************************************************************************)
Methods == {"MAPPED", "PHASEDIFF", "PEPOLAR", "ANAT"}

\* a suffix that is no functional one, and two of the functional ones, the
\* second of which the SyN preprocessing does not take
Suffixes == {"T1w", "bold", "epi"}

RECURSIVE SumTo(_, _)
\* the sum of the first i counts
SumTo(counts, i) == IF i = 0 THEN 0 ELSE SumTo(counts, i - 1) + counts[i]

\* the list of estimators with the given methods, the i-th of which has id i
\* and takes the next counts[i] of the files as its sources
SetupList(methods, counts, files) ==
    [i \in 1..Len(methods) |->
        [bids_id |-> i, method |-> methods[i],
         sources |-> SubSeq(files, SumTo(counts, i - 1) + 1, SumTo(counts, i))]]

InitSetup ==
    /\ \E n \in 0..MaxEstimators :
          \E methods \in [1..n -> Methods],
             counts \in {c \in [1..n -> 0..MaxSources] : SumTo(c, n) <= MaxSources} :
             \E files \in [1..SumTo(counts, n) -> Suffixes] :
                fmap_estimators = SetupList(methods, counts, files)
    /\ pc = "setup"
    /\ config_workflow = [ignore_fieldmaps |-> FALSE, use_syn |-> "False", force_syn |-> FALSE]
    /\ layout = [estimators |-> <<>>, intended |-> <<>>]
    /\ bold_data = <<>>
    /\ estimator_map = EmptyDict
    /\ log = <<>>
    /\ raised = "none"
    /\ fmap_wf = NoFmapWf
    /\ func_fit_wfs = <<>>
    /\ precomputed = EmptyDict
    /\ fieldmap_id = None
    /\ workflow = NoWorkflow
    /\ IdleNative

\* base.py:258-351 and base.py:780-888
SetupEstimators ==
    /\ pc = "setup"
    /\ IF UnsupportedPepolar(fmap_estimators)
       THEN /\ raised' = "NotImplementedError"
            /\ pc' = "raised"
            /\ UNCHANGED fmap_wf
       ELSE /\ fmap_wf' = IF fmap_estimators # <<>> THEN SetupFmapWf(fmap_estimators)
                          ELSE NoFmapWf
            /\ pc' = "done"
            /\ UNCHANGED raised
    /\ UNCHANGED <<config_workflow, layout, bold_data, fmap_estimators, estimator_map, log,
                   func_fit_wfs>>
    /\ UNCHANGED fit_vars
    /\ UNCHANGED <<registry, native_vars>>

NextSetup == SetupEstimators

SpecSetup == InitSetup /\ [][NextSetup]_vars

(***************************************************************************)
(* Specification of the resolutions of one subject's estimators against    *)
(* the shared registry, in any sequence: map_fieldmap_estimation (called   *)
(* by init_single_subject_fit_wf) and the discovery and pruning of         *)
(* init_single_subject_wf.  The registry starts as discovery left it: the  *)
(* subject's estimators and one registered for an earlier subject.         *)
(***************************************************************************)
OtherSubjectId == MaxEstimators + 1

InitRegistry ==
    /\ config_workflow \in [ignore_fieldmaps : BOOLEAN, use_syn : {"False", "True", "error"},
                            force_syn : BOOLEAN]
    /\ bold_data \in SeriesLists
    /\ layout \in [estimators : EstimatorLists, intended : IntendedFor(Len(bold_data))]
    /\ registry = AllIds(layout.estimators) \cup {OtherSubjectId}
    /\ pc = "discovered"
    /\ fmap_estimators = <<>>
    /\ estimator_map = EmptyDict
    /\ log = <<>>
    /\ raised = "none"
    /\ fmap_wf = NoFmapWf
    /\ func_fit_wfs = <<>>
    /\ precomputed = EmptyDict
    /\ fieldmap_id = None
    /\ workflow = NoWorkflow
    /\ bold_series = <<>>
    /\ run_stc = FALSE
    /\ native = NoNative
    /\ run_graph = EmptyDict
    /\ status = EmptyDict

\* base.py:248-256: the resolution of init_single_subject_fit_wf
FitResolution ==
    /\ pc \in {"discovered", "fit", "wf"}
    /\ LET r == map_fieldmap_estimation(config_workflow, layout, bold_data)
       IN  /\ fmap_estimators' = r.fmap_estimators
           /\ estimator_map' = r.estimator_map
           /\ log' = r.log
           /\ raised' = r.raised
    /\ pc' = "fit"
    /\ UNCHANGED <<config_workflow, layout, bold_data, fmap_wf, func_fit_wfs, registry>>
    /\ UNCHANGED fit_vars
    /\ UNCHANGED native_vars

\* base.py:470-477 and base.py:651-888: the resolution of
\* init_single_subject_wf, followed by its set-up loop
SubjectWfResolution ==
    /\ pc \in {"discovered", "fit", "wf"}
    /\ LET r == SubjectWfEstimators(config_workflow, layout, bold_data, registry)
       IN  /\ fmap_estimators' = r.fmap_estimators
           /\ estimator_map' = EmptyDict
           /\ log' = r.log
           /\ registry' = r.registry
           /\ raised' = IF r.raised = "none" /\ UnsupportedPepolar(r.fmap_estimators)
                        THEN "NotImplementedError"
                        ELSE r.raised
           /\ fmap_wf' = IF r.fmap_estimators # <<>> /\ ~UnsupportedPepolar(r.fmap_estimators)
                         THEN SetupFmapWf(r.fmap_estimators)
                         ELSE NoFmapWf
    /\ pc' = "wf"
    /\ UNCHANGED <<config_workflow, layout, bold_data, func_fit_wfs>>
    /\ UNCHANGED fit_vars
    /\ UNCHANGED native_vars

NextRegistry == FitResolution \/ SubjectWfResolution

SpecRegistry == InitRegistry /\ [][NextRegistry]_vars

(***************************************************************************)
(* Specification of one call of init_bold_native_wf: the echo files, in    *)
(* the order supplied, with their echo times and shapes, the estimator and *)
(* the slice-timing switch are drawn in the initial state.                 *)
(***************************************************************************)
\* file i is the i-th supplied; echo times may repeat
EchoSeries(times, shapes) ==
    [i \in 1..Len(times) |-> [name |-> i, EchoTime |-> times[i], shape |-> shapes[i]]]

InitNative ==
    /\ \E n \in 0..MaxEchoes :
          \E times \in [1..n -> 1..MaxEchoes], shapes \in [1..n -> 1..NumShapes] :
             bold_series = EchoSeries(times, shapes)
    /\ fieldmap_id \in {None, MaxEstimators}
    /\ run_stc \in BOOLEAN
    /\ native = NoNative
    /\ run_graph = EmptyDict
    /\ status = EmptyDict
    /\ pc = "native"
    /\ registry = {}
    /\ config_workflow = [ignore_fieldmaps |-> FALSE, use_syn |-> "False", force_syn |-> FALSE]
    /\ layout = [estimators |-> <<>>, intended |-> <<>>]
    /\ bold_data = <<>>
    /\ fmap_estimators = <<>>
    /\ estimator_map = EmptyDict
    /\ log = <<>>
    /\ raised = "none"
    /\ fmap_wf = NoFmapWf
    /\ func_fit_wfs = <<>>
    /\ precomputed = EmptyDict
    /\ workflow = NoWorkflow

\* fit.py:592-872
BoldNative ==
    /\ pc = "native"
    /\ native' = init_bold_native_wf(bold_series, fieldmap_id, run_stc)
    /\ pc' = IF native'.returned THEN "returned" ELSE "raised"
    /\ UNCHANGED <<bold_series, run_stc, run_graph, status, registry>>
    /\ UNCHANGED fit_vars
    /\ UNCHANGED <<config_workflow, layout, bold_data, fmap_estimators, estimator_map, log,
                   raised, fmap_wf, func_fit_wfs>>

NextNative == BoldNative

SpecNative == InitNative /\ [][NextNative]_vars

(***************************************************************************)
(* Specification of the execution of a graph init_bold_native_wf returned: *)
(* a node runs once all the nodes it depends on have finished; it finishes *)
(* or, unless it is an identity node, fails; what depends on a failed node *)
(* never becomes ready.  The engine runs every ready node eventually.      *)
(***************************************************************************)
\* echoes of one shape: echo i has echo time i
UniformSeries ==
    {[i \in 1..n |-> [name |-> i, EchoTime |-> i, shape |-> 1]] : n \in 1..MaxEchoes}

\* fit.py:757 and fit.py:837-838: the executed nodes that are identities
IdentityRunNodes == {"echo_index", "join_echos"}

InitRun ==
    /\ bold_series \in {series \in UniformSeries :
                           init_bold_native_wf(series, None, FALSE).returned}
    /\ fieldmap_id \in {None, MaxEstimators}
    /\ run_stc \in BOOLEAN
    /\ native = init_bold_native_wf(bold_series, fieldmap_id, run_stc)
    /\ run_graph = LET E == ExpandedEdges(native.workflow)
                   IN  [x \in ExpandedNodes(native.workflow) |->
                           {e[1] : e \in {y \in E : y[2] = x}}]
    /\ status = [x \in DOMAIN run_graph |-> "pending"]
    /\ pc = "run"
    /\ registry = {}
    /\ config_workflow = [ignore_fieldmaps |-> FALSE, use_syn |-> "False", force_syn |-> FALSE]
    /\ layout = [estimators |-> <<>>, intended |-> <<>>]
    /\ bold_data = <<>>
    /\ fmap_estimators = <<>>
    /\ estimator_map = EmptyDict
    /\ log = <<>>
    /\ raised = "none"
    /\ fmap_wf = NoFmapWf
    /\ func_fit_wfs = <<>>
    /\ precomputed = EmptyDict
    /\ workflow = NoWorkflow

\* a node taken as ready once one of the nodes it waits for has finished
Ready_AnyPred(x) ==
    /\ pc = "run"
    /\ x \in DOMAIN status
    /\ status[x] = "pending"
    /\ (run_graph[x] = {} \/ \E p \in run_graph[x] : status[p] = "done")

\* a node is ready when every node it waits for has finished
Ready(x) ==
    /\ pc = "run"
    /\ x \in DOMAIN status
    /\ status[x] = "pending"
    /\ \A p \in run_graph[x] : status[p] = "done"

RunFrame ==
    /\ UNCHANGED <<bold_series, run_stc, native, run_graph, registry, pc>>
    /\ UNCHANGED fit_vars
    /\ UNCHANGED <<config_workflow, layout, bold_data, fmap_estimators, estimator_map, log,
                   raised, fmap_wf, func_fit_wfs>>

Finish(x) ==
    /\ Ready(x)
    /\ status' = [status EXCEPT ![x] = "done"]
    /\ RunFrame

Fail(x) ==
    /\ Ready(x)
    /\ x[1] \notin IdentityRunNodes
    /\ status' = [status EXCEPT ![x] = "failed"]
    /\ RunFrame

FinishNode == \E x \in DOMAIN status : Finish(x)

FailNode == \E x \in DOMAIN status : Fail(x)

NextRun == FinishNode \/ FailNode

\* A ready node stays ready until it runs, and every run ends, so running
\* some ready node as long as there is one runs every ready node.
SpecRun == InitRun /\ [][NextRun]_vars /\ WF_vars(NextRun)

(***************************************************************************)
(* Specification of one call of either graph builder: init_bold_fit_wf     *)
(* with any cache and estimator assignment, or init_bold_native_wf with    *)
(* any series.                                                             *)
(***************************************************************************)
InitGraphs == InitFit \/ InitNative

NextGraphs == BoldFit \/ BoldNative

SpecGraphs == InitGraphs /\ [][NextGraphs]_vars

(***************************************************************************)
(* Claims about init_bold_fit_wf                                           *)
(***************************************************************************)

\* the cache holds the slot (the claim's "cached"), whatever the code tests
HasSlot(pre, slot) ==
    IF slot \in {"hmc_boldref", "coreg_boldref"}
    THEN slot \in DOMAIN pre
    ELSE "transforms" \in DOMAIN pre /\ slot \in DOMAIN pre["transforms"]

SlotValue(pre, slot) ==
    IF slot \in {"hmc_boldref", "coreg_boldref"} THEN pre[slot] ELSE pre["transforms"][slot]

\* the graph-level output port of each cache slot
OutputPortOf ==
    [hmc_boldref |-> "hmc_boldref", coreg_boldref |-> "coreg_boldref", hmc |-> "motion_xfm",
     boldref2fmap |-> "boldref2fmap_xfm", boldref2anat |-> "boldref2anat_xfm"]

CacheSlots == DOMAIN OutputPortOf

OutputPorts ==
    {"hmc_boldref", "coreg_boldref", "bold_mask", "motion_xfm", "boldref2anat_xfm",
     "boldref2fmap_xfm"}

Included(n) == n \in workflow.nodes

\* C1: the producing stage of each of the four stage groups is in the graph
\* iff the group's slot is not cached, each decision depending on its own
\* slot only; with an empty cache and no estimator the producing stages are
\* exactly the four group stages.
C1_StageIffNotCached ==
    workflow.built =>
        /\ Included("hmc_boldref_wf") <=> ~HasSlot(precomputed, "hmc_boldref")
        /\ Included("bold_hmc_wf") <=> ~HasSlot(precomputed, "hmc")
        /\ Included("enhance_boldref_wf") <=> ~HasSlot(precomputed, "coreg_boldref")
        /\ (Included("unwarp_wf") \/ Included("fmapreg_wf"))
               => ~HasSlot(precomputed, "coreg_boldref")
        /\ Included("bold_reg_wf") <=> ~HasSlot(precomputed, "boldref2anat")
        /\ (\A s \in CacheSlots : ~HasSlot(precomputed, s)) /\ fieldmap_id = None
               => workflow.nodes \cap ProducingStages =
                      {"hmc_boldref_wf", "bold_hmc_wf", "enhance_boldref_wf", "bold_reg_wf"}

\* C1 witness: a graph built from a cache holding the motion transforms only,
\* so that some groups are skipped while others are included
C1_Witness ==
    /\ workflow.built
    /\ HasSlot(precomputed, "hmc")
    /\ ~HasSlot(precomputed, "hmc_boldref")
    /\ ~Included("bold_hmc_wf")
    /\ Included("hmc_boldref_wf")

\* C2 (as claimed): the output port of every cached slot resolves to exactly
\* the cached artifact, whatever else is cached and whether or not an
\* estimator is assigned.
C2_CachedSlotResolvesToCache ==
    workflow.built =>
        \A s \in CacheSlots :
            HasSlot(precomputed, s) =>
                Origins(workflow, "outputnode", OutputPortOf[s])
                    = {FromCache(SlotValue(precomputed, s))}

\* C3 (as claimed): with the four group slots cached the graph has no
\* producing stage and every output port resolves to cache reads.
C3_AllCachedAllPortsFromCache ==
    (workflow.built /\ \A s \in {"hmc_boldref", "hmc", "coreg_boldref", "boldref2anat"} :
                           HasSlot(precomputed, s)) =>
        /\ workflow.nodes \cap ProducingStages = {}
        /\ \A port \in OutputPorts :
               /\ Origins(workflow, "outputnode", port) # {}
               /\ \A o \in Origins(workflow, "outputnode", port) : o[1] = "value" /\ o[2] = "cached"

\* the nodes of the graph that are stages: everything but the identity nodes
Stages(wf) == wf.nodes \ IdentityNodes

\* the source port of edge e carries a value: a declared field of the
\* inputnode, a buffer port that a stage or a static value feeds, or an
\* output port of a stage that is in the graph
SourceResolved(wf, e) ==
    IF e[1] = "inputnode"
    THEN e[2] \in IdentityFields["inputnode"]
    ELSE IF e[1] \in IdentityNodes
         THEN e[2] \in IdentityFields[e[1]] /\ Origins(wf, e[1], e[2]) # {}
         ELSE e[1] \in wf.nodes

\* C4: for every cache and estimator assignment, every input of every
\* included stage that the graph wires is fed by an included stage, a cached
\* or static value, or the inputnode: no stage reads a buffer port that
\* nothing sets, and the reference selector has both of its arguments.
C4_NoUnresolvedDependency ==
    workflow.built =>
        /\ \A e \in workflow.edges : e[3] \in Stages(workflow) => SourceResolved(workflow, e)
        /\ Included("fmapref_buffer")
               => \A p \in SelectRefInputs : Origins(workflow, "fmapref_buffer", p) # {}

\* C4 witness: motion estimation is included while the reference it reads
\* comes from the cache through hmcref_buffer
C4_Witness ==
    /\ workflow.built
    /\ Included("bold_hmc_wf")
    /\ HasSlot(precomputed, "hmc_boldref")
    /\ Origins(workflow, "bold_hmc_wf", "inputnode.raw_ref_image")
           = {FromCache(precomputed["hmc_boldref"])}
    /\ Origins(workflow, "bold_hmc_wf", "inputnode.bold_file")
           = {FromStage("validate_bold", "out_file")}

\* C5: when coreg_boldref is not cached, an assigned estimator adds the
\* unwarp sub-stage, whose corrected image (through ds_coreg_boldref_wf) and
\* corrected mask become coreg_boldref and bold_mask, and adds fmapreg_wf iff
\* transforms.boldref2fmap is not cached, the registration or else the cached
\* transform feeding the unwarp; with no estimator neither sub-stage is
\* included and the enhancement stage provides reference and mask.
C5_DistortionBranch ==
    (workflow.built /\ ~HasSlot(precomputed, "coreg_boldref")) =>
        /\ Origins(workflow, "outputnode", "coreg_boldref")
               = {FromStage("ds_coreg_boldref_wf", "outputnode.boldref")}
        /\ IF fieldmap_id # None
           THEN /\ Included("unwarp_wf")
                /\ Origins(workflow, "ds_coreg_boldref_wf", "inputnode.boldref")
                       = {FromStage("unwarp_wf", "outputnode.corrected")}
                /\ Origins(workflow, "outputnode", "bold_mask")
                       = {FromStage("unwarp_wf", "outputnode.corrected_mask")}
                /\ Included("fmapreg_wf") <=> ~HasSlot(precomputed, "boldref2fmap")
                /\ IF HasSlot(precomputed, "boldref2fmap")
                   THEN Origins(workflow, "unwarp_wf", "inputnode.fmap2data_xfm")
                            = {FromCache(precomputed["transforms"]["boldref2fmap"])}
                   ELSE /\ Origins(workflow, "unwarp_wf", "inputnode.fmap2data_xfm")
                               = {FromStage("ds_fmapreg_wf", "outputnode.xform")}
                        /\ Origins(workflow, "ds_fmapreg_wf", "inputnode.xform")
                               = {FromStage("itk_mat2txt", "out_xfm")}
                        /\ Origins(workflow, "itk_mat2txt", "in_xfms")
                               = {FromStage("fmapreg_wf", "outputnode.target2fmap_xfm")}
           ELSE /\ ~Included("unwarp_wf")
                /\ ~Included("fmapreg_wf")
                /\ Origins(workflow, "ds_coreg_boldref_wf", "inputnode.boldref")
                       = {FromStage("enhance_boldref_wf", "outputnode.bias_corrected_file")}
                /\ Origins(workflow, "outputnode", "bold_mask")
                       = {FromStage("enhance_boldref_wf", "outputnode.mask_file")}

\* C5 witness: an estimator is assigned, nothing of the coregistration group
\* is cached, and both sub-stages are in the graph
C5_Witness ==
    /\ workflow.built
    /\ fieldmap_id # None
    /\ ~HasSlot(precomputed, "coreg_boldref")
    /\ ~HasSlot(precomputed, "boldref2fmap")
    /\ Included("fmapreg_wf")
    /\ Included("unwarp_wf")

(***************************************************************************)
(* Claims about map_fieldmap_estimation and the subject loop               *)
(***************************************************************************)

\* the estimators discovered for the subject: none when every flag is off
Discovered ==
    IF \/ ~config_workflow.ignore_fieldmaps
       \/ config_workflow.use_syn # "False"
       \/ config_workflow.force_syn
    THEN layout.estimators
    ELSE <<>>

\* the known estimator ids: the discovered ones, restricted to the ANAT
\* estimators when fieldmaps are ignored and an ANAT estimator was found
KnownIds ==
    LET anat == {f \in Range(Discovered) : f.method = "ANAT"}
    IN  IF config_workflow.ignore_fieldmaps /\ anat # {}
        THEN {f.bids_id : f \in anat}
        ELSE {f.bids_id : f \in Range(Discovered)}

\* the declared candidates of file f that are known, in declaration order
KnownCandidates(f) == SelectSeq(layout.intended[f], LAMBDA id : id \in KnownIds)

SeriesFiles == {bold_data[i][1] : i \in 1..Len(bold_data)}

WarningsFor(f) == SelectSeq(log, LAMBDA w : w.level = "warning" /\ w.bold_file = f)

\* map_fieldmap_estimation has returned its pair
MapReturned == pc \in {"done", "raised"} /\ raised # "ValueError"

AssignedIds == {estimator_map[f] : f \in DOMAIN estimator_map}

\* C6: a series with several known candidates is assigned the first of them
\* in declaration order and gets exactly one warning, naming those
\* candidates and the chosen one; a series with at most one gets none.
C6_FirstWinsOneWarning ==
    MapReturned =>
        \A f \in SeriesFiles :
            IF Len(KnownCandidates(f)) > 1
            THEN /\ f \in DOMAIN estimator_map
                 /\ estimator_map[f] = KnownCandidates(f)[1]
                 /\ Len(WarningsFor(f)) = 1
                 /\ WarningsFor(f)[1].candidates = KnownCandidates(f)
                 /\ WarningsFor(f)[1].using = KnownCandidates(f)[1]
            ELSE WarningsFor(f) = <<>>

\* C6 witness: a series declared <<2, 1>> with both known was assigned 2 and warned about
C6_Witness ==
    /\ MapReturned
    /\ \E f \in SeriesFiles :
           /\ KnownCandidates(f) = <<2, 1>>
           /\ estimator_map[f] = 2
           /\ Len(WarningsFor(f)) = 1

\* C7: the returned estimators are exactly the discovered estimators that
\* some series is assigned to, each once.
C7_PrunedIsImageOfAssignment ==
    MapReturned =>
        /\ Range(fmap_estimators) = {f \in Range(layout.estimators) : f.bids_id \in AssignedIds}
        /\ Cardinality(Range(fmap_estimators)) = Len(fmap_estimators)
        /\ \A id \in AssignedIds : \E f \in Range(fmap_estimators) : f.bids_id = id

\* C7 witness: two estimators were known, one was dropped as unreferenced
C7_Witness ==
    /\ MapReturned
    /\ Cardinality(KnownIds) = 2
    /\ Len(fmap_estimators) = 1

FitOf(f) == func_fit_wfs[CHOOSE i \in 1..Len(func_fit_wfs) : func_fit_wfs[i].bold_file = f]

NoDistortionBranch(wf) == wf.nodes \cap {"unwarp_wf", "fmapreg_wf", "fmap_select"} = {}

AllowedPepolarSuffixes == {"epi", "bold", "sbref"}

\* the PEPOLAR estimators to set up that do not have exactly two sources,
\* both of an allowed suffix
RejectedPepolar ==
    {f \in Range(fmap_estimators) :
        /\ f.method = "PEPOLAR"
        /\ ~(/\ Len(f.sources) = 2
             /\ f.sources[1] \in AllowedPepolarSuffixes
             /\ f.sources[2] \in AllowedPepolarSuffixes)}

\* C11: the set-up raises the unsupported-scheme error exactly when some
\* PEPOLAR estimator does not have exactly two sources of suffix epi, bold
\* or sbref, and then no graph is returned; otherwise every PEPOLAR
\* estimator is wired; MAPPED and PHASEDIFF estimators never cause it.
C11_PepolarValidation ==
    pc # "setup" =>
        /\ raised = "NotImplementedError" <=> RejectedPepolar # {}
        /\ raised = "NotImplementedError" => pc = "raised" /\ ~fmap_wf.built
        /\ raised = "none" =>
               \A f \in Range(fmap_estimators) :
                   f.method = "PEPOLAR" => f.bids_id \in fmap_wf.pepolar
        /\ (\A f \in Range(fmap_estimators) : f.method \in {"MAPPED", "PHASEDIFF"}) =>
               raised = "none"

\* C11 witness: a PEPOLAR estimator with two sources, one of them a T1w, was
\* rejected although a PHASEDIFF estimator came before it
C11_Witness ==
    /\ pc = "raised"
    /\ raised = "NotImplementedError"
    /\ \E f, g \in Range(fmap_estimators) :
           /\ f.method = "PEPOLAR" /\ Len(f.sources) = 2 /\ "T1w" \in Range(f.sources)
           /\ g.method = "PHASEDIFF"

\* C12 (as claimed): every ANAT estimator that was set up hands at least one
\* functional source (bold or sbref) to the SyN preprocessing stage.
C12_AnatHasFunctionalSource ==
    pc = "done" =>
        \A f \in Range(fmap_estimators) :
            f.method = "ANAT" =>
                \E w \in fmap_wf.syn : w[1] = f.bids_id /\ w[2] # <<>>

(***************************************************************************)
(* Claims about the shared estimator registry                              *)
(***************************************************************************)
\* C13 (as claimed): after any sequence of resolutions the shared registry
\* holds exactly the entries it held after discovery.
C13_RegistryUntouched ==
    pc \in {"discovered", "fit", "wf"} =>
        registry = AllIds(layout.estimators) \cup {OtherSubjectId}

(***************************************************************************)
(* Claims about init_bold_native_wf                                        *)
(***************************************************************************)
NativeCalled == pc \in {"returned", "raised"}

AllShapes == {bold_series[i].shape : i \in 1..Len(bold_series)}

\* C14 (as claimed): a series of exactly two echoes, whatever their shapes,
\* fails with the error that at least three echoes are required, and no
\* graph is returned.
C14_TwoEchoesInsufficient ==
    (NativeCalled /\ Len(bold_series) = 2) =>
        /\ ~native.returned
        /\ native.raised = "RuntimeError"
        /\ native.message = FoundTwo

\* the graph has an edge from port pa of node a to port pb of node b
NativeEdge(a, pa, b, pb) == <<a, pa, b, pb>> \in native.workflow.edges

\* the sources connected to port p of the graph's outputnode
OutputSources(p) ==
    {<<e[1], e[2]>> : e \in {x \in native.workflow.edges : x[3] = "outputnode" /\ x[4] = p}}

\* neither join nor combination stage, no iteration over echoes, and the
\* outputs are those of the one branch
Passthrough ==
    /\ native.returned
    /\ native.workflow.nodes \cap {"join_echos", "bold_t2smap_wf"} = {}
    /\ native.workflow.iterables = <<>>
    /\ native.workflow.joinsource = ""
    /\ OutputSources("bold_minimal") = {<<"boldbuffer", "bold_file">>}
    /\ OutputSources("bold_native") = {<<"boldref_bold", "out_file">>}
    /\ IF run_stc
       THEN NativeEdge("bold_stc_wf", "outputnode.stc_file", "boldbuffer", "bold_file")
       ELSE NativeEdge("validate_bold", "out_file", "boldbuffer", "bold_file")

\* C15 (as claimed): for a series of zero or one echo the call returns a
\* passthrough graph and raises no error.
C15_PassthroughUpToOneEcho ==
    (NativeCalled /\ Len(bold_series) <= 1) =>
        /\ native.raised = "none"
        /\ Passthrough

\* C16: a series of three or more echoes whose shapes are not all the same
\* fails with the shape-mismatch error, no graph is built, and the message
\* lists every echo file with its shape, the mismatching ones included;
\* with identical shapes there is no shape error.
C16_ShapeMismatch ==
    NativeCalled =>
        /\ (Len(bold_series) >= 3 /\ Cardinality(AllShapes) > 1) =>
               /\ ~native.returned
               /\ native.raised = "RuntimeError"
               /\ native.message = MismatchingShapes
               /\ native.workflow = NoNativeGraph
               /\ \A i \in 1..Len(bold_series) :
                      \E k \in 1..Len(native.diagnostic) :
                          native.diagnostic[k] = <<bold_series[i].name, bold_series[i].shape>>
        /\ Cardinality(AllShapes) <= 1 => native.message # MismatchingShapes
        /\ (Len(bold_series) >= 3 /\ Cardinality(AllShapes) = 1) => native.returned

\* C16 witness: three echoes, the last of another shape than the first two,
\* were refused with the three files named
C16_Witness ==
    /\ pc = "raised"
    /\ Len(bold_series) = 3
    /\ bold_series[1].shape = bold_series[2].shape
    /\ bold_series[3].shape # bold_series[1].shape
    /\ native.message = MismatchingShapes
    /\ Len(native.diagnostic) = 3

\* the stages every echo goes through on its own
PerEchoStages ==
    {"echo_index", "bold_source", "validate_bold", "boldref_bold"}
    \cup (IF run_stc THEN {"bold_stc_wf"} ELSE {})

EchoIndices == {i - 1 : i \in 1..Len(bold_series)}

JoinNode == <<"join_echos", Shared>>

\* C17: for N >= 3 echoes of one shape the graph iterates over the indices
\* 0..N-1; the per-echo stages exist once per index and no connection leads
\* from one index to another; the one join receives the resampled output of
\* each index, once; the one combination stage is fed by the join and gives
\* bold_minimal, bold_native and t2star_map; the joined files are bold_echos.
C17_MultiEchoStructure ==
    (NativeCalled /\ Len(bold_series) >= 3 /\ Cardinality(AllShapes) = 1) =>
        /\ native.returned
        /\ Range(native.workflow.iterables) = EchoIndices
        /\ Len(native.workflow.iterables) = Len(bold_series)
        /\ Iterated(native.workflow) = PerEchoStages
        /\ \A n \in PerEchoStages :
               {x \in ExpandedNodes(native.workflow) : x[1] = n}
                   = {<<n, i>> : i \in EchoIndices}
        /\ \A e \in ExpandedEdges(native.workflow) :
               e[1][2] = e[2][2] \/ e[1][2] = Shared \/ e[2][2] = Shared
        /\ native.workflow.joinsource = "echo_index"
        /\ {x \in ExpandedNodes(native.workflow) : x[1] \in {"join_echos", "bold_t2smap_wf"}}
               = {JoinNode, <<"bold_t2smap_wf", Shared>>}
        /\ Preds(native.workflow, JoinNode) = {<<"boldref_bold", i>> : i \in EchoIndices}
        /\ {e \in native.workflow.edges : e[3] = "join_echos"}
               = {<<"boldref_bold", "out_file", "join_echos", "bold_files">>}
        /\ {<<e[1], e[2]>> : e \in {x \in native.workflow.edges :
                                       x[3] = "bold_t2smap_wf" /\ x[4] = "inputnode.bold_file"}}
               = {<<"join_echos", "bold_files">>}
        /\ OutputSources("bold_minimal") = {<<"bold_t2smap_wf", "outputnode.bold">>}
        /\ OutputSources("bold_native") = {<<"bold_t2smap_wf", "outputnode.bold">>}
        /\ OutputSources("t2star_map") = {<<"bold_t2smap_wf", "outputnode.t2star_map">>}
        /\ OutputSources("bold_echos") = {<<"join_echos", "bold_files">>}

\* C17 witness: three echoes of one shape with slice timing and an estimator
\* gave a graph with three copies of the resampler behind one join
C17_Witness ==
    /\ pc = "returned"
    /\ Len(bold_series) = 3
    /\ run_stc
    /\ Truthy(fieldmap_id)
    /\ Preds(native.workflow, JoinNode) = {<<"boldref_bold", 0>>, <<"boldref_bold", 1>>,
                                           <<"boldref_bold", 2>>}
    /\ <<"bold_stc_wf", 2>> \in ExpandedNodes(native.workflow)
    /\ <<"boldref_fmap", Shared>> \in ExpandedNodes(native.workflow)

\* C18: the motion_xfm output has a source exactly for a single-echo
\* series, where it is the motion_xfm input as it is; for a multi-echo
\* series it has none, while the motion_xfm input still reaches the
\* resampler, which exists once per echo.
C18_MotionXfmSingleEchoOnly ==
    (NativeCalled /\ native.returned) =>
        /\ OutputSources("motion_xfm") # {} <=> Len(bold_series) = 1
        /\ Len(bold_series) = 1 =>
               OutputSources("motion_xfm") = {<<"inputnode", "motion_xfm">>}
        /\ NativeEdge("inputnode", "motion_xfm", "boldref_bold", "transforms")
        /\ Len(bold_series) > 1 =>
               /\ OutputSources("motion_xfm") = {}
               /\ "boldref_bold" \in Iterated(native.workflow)

\* C18 witness: a three-echo graph without source for motion_xfm whose
\* resampler takes the motion transforms
C18_Witness ==
    /\ pc = "returned"
    /\ Len(bold_series) = 3
    /\ OutputSources("motion_xfm") = {}
    /\ NativeEdge("inputnode", "motion_xfm", "boldref_bold", "transforms")

\* the echo time of the supplied file of that name
EchoTimeOf(name) == bold_series[name].EchoTime

\* the file the branch of index idx reads: bold_source selects inlist[idx]
SelectedBy(idx) == native.workflow.inlist[idx + 1]

\* file f has the k-th smallest echo time of the series
KthSmallest(f, k) ==
    /\ Cardinality({i \in 1..Len(bold_series) : bold_series[i].EchoTime < EchoTimeOf(f)}) < k
    /\ Cardinality({i \in 1..Len(bold_series) : bold_series[i].EchoTime <= EchoTimeOf(f)}) >= k

\* C19: in whatever order the files are supplied, the files selected from
\* are all of them in ascending echo-time order; init_bold_fit_wf and
\* init_bold_native_wf take the same file of shortest echo time as
\* reference; the branch of index i reads the file of (i+1)-th smallest echo
\* time; the k-th value of the iterable, hence the k-th joined file, goes
\* with the k-th echo time given to the combination stage.
C19_AscendingEchoTime ==
    (NativeCalled /\ native.returned) =>
        /\ Len(native.workflow.inlist) = Len(bold_series)
        /\ Range(native.workflow.inlist) = {bold_series[i].name : i \in 1..Len(bold_series)}
        /\ \A i, j \in 1..Len(native.workflow.inlist) :
               i <= j => EchoTimeOf(native.workflow.inlist[i])
                             <= EchoTimeOf(native.workflow.inlist[j])
        /\ native.workflow.metadata = native.workflow.inlist[1]
        /\ FitReferenceEcho(bold_series).name = native.workflow.metadata
        /\ \A i \in 1..Len(bold_series) :
               EchoTimeOf(native.workflow.metadata) <= bold_series[i].EchoTime
        /\ NativeEdge("echo_index", "echoidx", "bold_source", "index")
        /\ IF Len(bold_series) > 1
           THEN /\ Len(native.workflow.iterables) = Len(bold_series)
                /\ Len(native.workflow.echo_times) = Len(bold_series)
                /\ \A k \in 1..Len(bold_series) :
                       /\ native.workflow.iterables[k] = k - 1
                       /\ KthSmallest(SelectedBy(native.workflow.iterables[k]), k)
                       /\ native.workflow.echo_times[k]
                              = EchoTimeOf(SelectedBy(native.workflow.iterables[k]))
           ELSE /\ native.workflow.echoidx = 0
                /\ KthSmallest(SelectedBy(native.workflow.echoidx), 1)

\* C19 witness: three echoes supplied longest echo time first were taken in
\* the reverse order
C19_Witness ==
    /\ pc = "returned"
    /\ Len(bold_series) = 3
    /\ bold_series[1].EchoTime > bold_series[2].EchoTime
    /\ bold_series[2].EchoTime > bold_series[3].EchoTime
    /\ native.workflow.inlist = <<3, 2, 1>>
    /\ native.workflow.echo_times
           = <<bold_series[3].EchoTime, bold_series[2].EchoTime, bold_series[1].EchoTime>>

(***************************************************************************)
(* Claims about the execution of a multi-echo graph                        *)
(***************************************************************************)
MultiEchoRun == pc = "run" /\ Len(bold_series) > 1

Combination == <<"bold_t2smap_wf", Shared>>

Resamplers == {<<"boldref_bold", i>> : i \in EchoIndices}

AllResampled == \A r \in Resamplers : status[r] = "done"

\* some stage of some echo's branch has failed
BranchFailed == \E x \in DOMAIN status : x[2] # Shared /\ status[x] = "failed"

JoinBarrier ==
    MultiEchoRun =>
        /\ status[JoinNode] # "pending" => AllResampled
        /\ status[Combination] # "pending" => AllResampled /\ status[JoinNode] = "done"
        /\ BranchFailed => status[JoinNode] = "pending" /\ status[Combination] = "pending"

\* C20: in every execution of a multi-echo graph, whatever the interleaving
\* of the branches, the join and the combination stage have not run unless
\* every echo's resampler has finished; once a stage of a branch has failed
\* they never run; and when every resampler has finished, the combination
\* stage eventually runs.
C20_JoinIsBarrier ==
    /\ []JoinBarrier
    /\ (MultiEchoRun /\ AllResampled) ~> (MultiEchoRun /\ status[Combination] # "pending")

\* C20 witness: the three resamplers of a three-echo run have finished and
\* the combination stage has run
C20_Witness ==
    /\ MultiEchoRun
    /\ Len(bold_series) = 3
    /\ AllResampled
    /\ status[JoinNode] = "done"
    /\ status[Combination] = "done"

(***************************************************************************)
(* Claims about the graphs of both builders                                *)
(***************************************************************************)
\* the edges between stages, ports left out
StageEdges(wf) == {<<e[1], e[3]>> : e \in wf.edges}

RECURSIVE UnorderedUpTo(_, _, _)
\* what is left of the nodes N after taking away, k times over, the nodes
\* that no remaining node leads to: the nodes no topological order can place
UnorderedUpTo(N, E, k) ==
    LET free == {n \in N : ~\E e \in E : e[2] = n /\ e[1] \in N}
    IN  IF k = 0 \/ free = {} THEN N ELSE UnorderedUpTo(N \ free, E, k - 1)

Acyclic(wf) == UnorderedUpTo(wf.nodes, StageEdges(wf), Cardinality(wf.nodes)) = {}

\* no edge leads from the output node or the reporting stage into a
\* producing stage
NoFeedback(wf) ==
    \A e \in StageEdges(wf) :
        e[1] \in {"outputnode", "func_fit_reports_wf"} => e[2] \notin ProducingStages

\* C21: every graph init_bold_fit_wf returns and every graph
\* init_bold_native_wf returns, whatever the cache, the estimator
\* assignment and the echoes, has a topological order of its stages, and no
\* edge leads from the output node or the reporting stage back into a
\* producing stage.
C21_GraphsAcyclic ==
    /\ workflow.built => Acyclic(workflow) /\ NoFeedback(workflow)
    /\ native.returned => Acyclic(native.workflow) /\ NoFeedback(native.workflow)

\* C21 witness: the fit graph built from an empty cache with an estimator
\* assigned, which holds every stage, is acyclic
C21_Witness ==
    /\ workflow.built
    /\ precomputed = EmptyDict
    /\ Truthy(fieldmap_id)
    /\ ProducingStages \subseteq workflow.nodes
    /\ StageEdges(workflow) # {}
    /\ Acyclic(workflow)

(***************************************************************************)
(* Further claims about init_bold_fit_wf                                   *)
(***************************************************************************)
\* what is attached to input port p of node n: the values set on it and the
\* output ports connected to it
DirectSources(wf, n, p) ==
    {<<"value", i[3]>> : i \in {x \in wf.inputs : x[1] = n /\ x[2] = p}}
    \cup {<<"edge", e[1], e[2]>> : e \in {x \in wf.edges : x[3] = n /\ x[4] = p}}

\* the output slots and the buffer ports
SlotPorts ==
    {<<n, p>> : n \in {"outputnode", "hmcref_buffer", "hmc_buffer", "regref_buffer",
                       "fmapreg_buffer"},
                p \in UNION {IdentityFields[m] : m \in IdentityNodes}}
    \cap UNION {{<<n, p>> : p \in IdentityFields[n]} : n \in IdentityNodes}

\* C22: in every graph init_bold_fit_wf returns, each output slot and each
\* buffer port has at most one source attached, and traced back through the
\* buffers it comes from at most one place: never a cached value together
\* with a stage output, never two stage outputs.
C22_AtMostOneSource ==
    workflow.built =>
        \A np \in SlotPorts :
            /\ Cardinality(DirectSources(workflow, np[1], np[2])) <= 1
            /\ Cardinality(Origins(workflow, np[1], np[2])) <= 1

\* C22 witness: a graph with the distortion branch and a cached motion
\* reference, where the mask port has the unwarp output as its one source and
\* the reference port the cached file
C22_Witness ==
    /\ workflow.built
    /\ DirectSources(workflow, "regref_buffer", "boldmask")
           = {<<"edge", "unwarp_wf", "outputnode.corrected_mask">>}
    /\ \E a \in Artifacts :
           DirectSources(workflow, "hmcref_buffer", "boldref") = {<<"value", Cached(a)>>}
    /\ Cardinality(DirectSources(workflow, "outputnode", "boldref2anat_xfm")) = 1

\* the cached values set on ports of the graph
CachedInputs(wf) == {i[3][2] : i \in {x \in wf.inputs : x[3][1] = "cached"}}

\* the artifacts the cache holds, in its baseline slots and its transforms
Held(pre) ==
    {pre[k] : k \in DOMAIN pre \ {"transforms"}}
    \cup {transforms(pre)[k] : k \in DOMAIN transforms(pre)}

\* C23: for every cache, with or without a transforms entry, the call ends
\* with a graph and never at a subscript of a slot the cache lacks, and what
\* the graph takes from the cache is an artifact the cache holds: neither
\* the outcome of a failed read nor the None of an absent transform.
C23_NoMissingSlotRead ==
    /\ raised # "KeyError"
    /\ workflow.built =>
           /\ ~MissingSlotRead(workflow)
           /\ CachedInputs(workflow) \subseteq Held(precomputed)
           /\ None \notin CachedInputs(workflow)

\* C23 witness: a cache without transforms entry and without motion
\* reference, holding the coregistration reference, gave a graph that reads
\* that one slot
C23_Witness ==
    /\ workflow.built
    /\ raised = "none"
    /\ DOMAIN precomputed = {"coreg_boldref"}
    /\ CachedInputs(workflow) = {precomputed["coreg_boldref"]}

(***************************************************************************)
(* Further claims about the assembly of one subject                        *)
(***************************************************************************)
\* init_single_subject_wf, called on the subject's data, fails with the
\* error that names the participant
SubjectWfFailsOnNoSeries ==
    SubjectWfEstimators(config_workflow, layout, bold_data, registry).raised = "RuntimeError"

\* C24 (as claimed): with anat_only off and no functional series, both
\* init_single_subject_wf and init_single_subject_fit_wf fail with the
\* fatal error naming the subject and return no graph.
C24_ZeroSeriesFatal ==
    (pc # "start" /\ bold_data = <<>>) =>
        /\ SubjectWfFailsOnNoSeries
        /\ pc = "raised"
        /\ raised = "RuntimeError"

\* every slot of the four stage groups is in the cache
AllCached(pre) ==
    /\ have_hmcref(pre)
    /\ have_coregref(pre)
    /\ Truthy(hmc_xforms(pre))
    /\ Truthy(boldref2anat_xform(pre))

\* C25: every graph init_bold_fit_wf returns holds the inputnode, and the
\* summary stage is in it and feeds the reports, which the inputnode feeds
\* as well; so also when every output comes from the cache.
C25_RootAndSummaryConnected ==
    workflow.built =>
        /\ {"inputnode", "summary", "func_fit_reports_wf"} \subseteq workflow.nodes
        /\ <<"summary", "out_report", "func_fit_reports_wf", "inputnode.summary_report">>
               \in workflow.edges
        /\ <<"inputnode", "func_fit_reports_wf">> \in StageEdges(workflow)

\* C25 witness: a graph built from a cache that holds everything has no
\* producing stage, and has the inputnode and the summary feeding the reports
C25_Witness ==
    /\ workflow.built
    /\ AllCached(precomputed)
    /\ workflow.nodes \cap ProducingStages = {}
    /\ "inputnode" \in workflow.nodes
    /\ <<"summary", "func_fit_reports_wf">> \in StageEdges(workflow)

\* the discovered PEPOLAR estimators that do not have exactly two sources,
\* both of an allowed suffix
DiscoveredRejectedPepolar ==
    {f \in Range(find_estimators(layout)) :
        /\ f.method = "PEPOLAR"
        /\ \/ Len(f.sources) # 2
           \/ \E i \in 1..Len(f.sources) : f.sources[i] \notin AllowedPepolarSuffixes}

\* C26 (as claimed): whenever discovery finds a PEPOLAR estimator with a
\* number of sources other than two or a source of a suffix outside the
\* allowed set, the assembly of the subject fails with the
\* unsupported-scheme error, whether or not a series is assigned to it
\* (stated for subjects that have series).
C26_ValidationPrecedesPruning ==
    (/\ pc # "start"
     /\ bold_data # <<>>
     /\ DiscoveryRuns(config_workflow)
     /\ DiscoveredRejectedPepolar # {}) =>
        /\ pc = "raised"
        /\ raised = "NotImplementedError"

\* the ids of the discovered ANAT estimators
AnatIds == {f.bids_id : f \in {g \in Range(find_estimators(layout)) : IsAnat(g)}}

\* C27 (as claimed): with ignore_fieldmaps set, whatever use_syn, force_syn
\* and the discovered estimators are, every estimator map_fieldmap_estimation
\* returns is an ANAT one and every assigned id is the id of an ANAT
\* estimator; with both synthetic flags off the result is ([], {}).
C27_IgnoreFieldmapsKeepsAnatOnly ==
    (pc # "start" /\ config_workflow.ignore_fieldmaps) =>
        /\ \A f \in Range(fmap_estimators) : IsAnat(f)
        /\ \A k \in DOMAIN estimator_map : estimator_map[k] \in AnatIds
        /\ ~DiscoveryRuns(config_workflow) =>
               fmap_estimators = <<>> /\ estimator_map = EmptyDict

\* the output ports of the estimator workflow that a fit graph takes
FmapOutputs ==
    {"outputnode.fmap", "outputnode.fmap_ref", "outputnode.fmap_coeff",
     "outputnode.fmap_mask", "outputnode.fmap_id", "outputnode.method"}

ConnectedToFmapWf(fit) == \E c \in fit.connections : c[1] = "fmap_wf"

\* C28: in init_single_subject_fit_wf the fit graph of a series is
\* connected to the outputs of the estimator workflow exactly when the
\* series has an assigned estimator, and then to all six of them; whenever
\* it is connected the estimator workflow was built, from returned
\* estimators among which is the one whose id the series' graph was given.
C28_ConnectedIffAssigned ==
    pc = "done" =>
        \A i \in 1..Len(func_fit_wfs) :
            LET fit == func_fit_wfs[i]
            IN  /\ ConnectedToFmapWf(fit) <=> fit.bold_file \in DOMAIN estimator_map
                /\ ConnectedToFmapWf(fit) =>
                       /\ {c[2] : c \in fit.connections} = FmapOutputs
                       /\ fmap_wf.built
                       /\ fit.fieldmap_id = estimator_map[fit.bold_file]
                       /\ fit.fieldmap_id \in fmap_wf.ids
                       /\ fit.fieldmap_id \in AllIds(fmap_estimators)

\* C28 witness: of two series one is assigned an estimator and connected,
\* the other is neither, and a discovered estimator was pruned
C28_Witness ==
    /\ pc = "done"
    /\ Len(func_fit_wfs) = 2
    /\ ConnectedToFmapWf(func_fit_wfs[1])
    /\ ~ConnectedToFmapWf(func_fit_wfs[2])
    /\ func_fit_wfs[1].fieldmap_id \in fmap_wf.ids
    /\ Len(fmap_estimators) < Len(layout.estimators)

\* what the pruning step of init_single_subject_wf keeps for the subject's
\* flags, layout and series
KeptBySubjectWf ==
    SubjectWfEstimators(config_workflow, layout, bold_data, registry).fmap_estimators

\* C29 (as claimed): for the same discovered estimators and the same
\* candidates per series, the estimators the pruning step of
\* init_single_subject_wf keeps are the estimators map_fieldmap_estimation
\* returns.
C29_BothEntryPointsPruneAlike ==
    (pc = "done" /\ bold_data # <<>>) => KeptBySubjectWf = fmap_estimators

\* per artifact: the stage producing it, the stage persisting it with the
\* output port of that stage, the port of outputnode it reaches, and
\* whether the cache holds it
Persisted(pre) ==
    {[producer |-> "hmc_boldref_wf", ds |-> "ds_hmc_boldref_wf", ds_out |-> "outputnode.boldref",
      port |-> "hmc_boldref", cached |-> have_hmcref(pre)],
     [producer |-> "bold_hmc_wf", ds |-> "ds_hmc_wf", ds_out |-> "outputnode.xforms",
      port |-> "motion_xfm", cached |-> Truthy(hmc_xforms(pre))],
     [producer |-> "enhance_boldref_wf", ds |-> "ds_coreg_boldref_wf",
      ds_out |-> "outputnode.boldref",
      port |-> "coreg_boldref", cached |-> have_coregref(pre)],
     [producer |-> "fmapreg_wf", ds |-> "ds_fmapreg_wf", ds_out |-> "outputnode.xform",
      port |-> "boldref2fmap_xfm", cached |-> Truthy(boldref2fmap_xform(pre))],
     [producer |-> "bold_reg_wf", ds |-> "ds_boldreg_wf", ds_out |-> "outputnode.xform",
      port |-> "boldref2anat_xfm", cached |-> Truthy(boldref2anat_xform(pre))]}

\* the persistence stage is in the graph exactly with the producing stage,
\* and not when the cache holds the artifact
PersistedIffProduced(wf, a) ==
    /\ a.ds \in wf.nodes <=> a.producer \in wf.nodes
    /\ a.cached => a.ds \notin wf.nodes

\* the artifact reaches its output port from the persistence stage alone
ThroughPersistence(wf, a) == Origins(wf, "outputnode", a.port) = {FromStage(a.ds, a.ds_out)}

\* C30 (as claimed): the persistence stage of each of the five artifacts is
\* in the graph if and only if its producing stage is, a cached artifact is
\* not written again, and every produced artifact reaches its output port
\* only through its persistence stage.
C30_PersistedIffProducedAndRouted ==
    workflow.built =>
        \A a \in Persisted(precomputed) :
            /\ PersistedIffProduced(workflow, a)
            /\ a.producer \in workflow.nodes => ThroughPersistence(workflow, a)

\* C30 (amended): the same, except that the motion reference reaches its
\* output port from hmc_boldref_wf itself, through hmcref_buffer, which also
\* feeds ds_hmc_boldref_wf on a side branch; the other four artifacts reach
\* their ports only through their persistence stages.
C30_PersistedIffProduced ==
    workflow.built =>
        \A a \in Persisted(precomputed) :
            /\ PersistedIffProduced(workflow, a)
            /\ a.producer \in workflow.nodes =>
                   IF a.port = "hmc_boldref"
                   THEN /\ Origins(workflow, "outputnode", a.port)
                               = {FromStage("hmc_boldref_wf", "outputnode.boldref")}
                        /\ Origins(workflow, a.ds, "inputnode.boldref")
                               = {FromStage("hmc_boldref_wf", "outputnode.boldref")}
                        /\ a.ds \notin {e[1] : e \in StageEdges(workflow)}
                   ELSE ThroughPersistence(workflow, a)

\* C30 witness: built from an empty cache with an estimator assigned, the
\* graph holds the five producing stages and the five persistence stages,
\* and the anatomical registration reaches its port through ds_boldreg_wf
C30_Witness ==
    /\ workflow.built
    /\ precomputed = EmptyDict
    /\ \A a \in Persisted(precomputed) : {a.producer, a.ds} \subseteq workflow.nodes
    /\ Origins(workflow, "outputnode", "boldref2anat_xfm")
           = {FromStage("ds_boldreg_wf", "outputnode.xform")}

====
